---------------------------- MODULE Spec2Model ----------------------------
(***************************************************************************)
(* Model of publish_daily_updates.py: the identifier function              *)
(* get_unique_document_id, the flattening of a categorized snapshot into   *)
(* policy documents, and the batch upsert of those documents into the      *)
(* Firestore collection artifacts/nsefi-policy-tracker/public/data/policies*)
(* by one or two overlapping runs of the script.                           *)
(*                                                                         *)
(* Python strings are TLA+ strings; they are taken apart with SubSeq and   *)
(* Len and joined with \o, character by character, as str.strip,           *)
(* str.lower, str.capitalize and str.replace do.                           *)
(***************************************************************************)
EXTENDS Integers, Sequences, FiniteSets, TLC

VARIABLES
  db,           \* per process: the module-level Firestore handle, or None
  pc,           \* per process: where the run stands
  snapshot,     \* per process: the policies_snapshot argument of the call
  policy_list,  \* per process: the flattened documents (line 64)
  batch,        \* per process: the writes queued on the WriteBatch (line 94)
  ret,          \* per process: the value transform_and_publish_policies returned
  collection,   \* the Firestore collection: document id -> document
  request,      \* per process: the commit request of the run (line 105):
                \* "none" before commit() is called, "pending" once it is
                \* under way, "applied" once the destination applied it
  commits,      \* history: the batches the destination applied so far, in
                \* order, each with the runs whose request was then pending
                \* and the collection before and after
  id_in,        \* the two argument pairs handed to get_unique_document_id
  id_out        \* what the two calls returned

vars == <<db, pc, snapshot, policy_list, batch, ret, request, collection, commits,
          id_in, id_out>>

---------------------------------------------------------------------------
(* Bounds of the model.                                                    *)

\* Longest title handed to get_unique_document_id in the identifier checks.
MaxTitleLen == 4

\* Most items a snapshot holds, over all its buckets and sources.
MaxItems == 2

\* Most items a snapshot of several sources per bucket holds.
MaxNestedItems == 4

---------------------------------------------------------------------------
(* Python string methods, on the ASCII range.                              *)

\* The ASCII characters str.strip() removes, those str.isspace() holds for:
\* space, \t, \n, vertical tab (0x0b), \f, \r and the separators 0x1c, 0x1d,
\* 0x1e and 0x1f.  The last five stand in the strings as the characters
\* themselves.
WHITESPACE == {" ", "\t", "\n", "", "\f", "\r", "", "", "", ""}

CharAt(s, i) == SubSeq(s, i, i)

\* ASCII_UPPERCASE[i] -> ASCII_LOWERCASE[i]
TO_LOWER ==
  ("A" :> "a") @@ ("B" :> "b") @@ ("C" :> "c") @@ ("D" :> "d") @@ ("E" :> "e") @@ ("F" :> "f") @@
  ("G" :> "g") @@ ("H" :> "h") @@ ("I" :> "i") @@ ("J" :> "j") @@ ("K" :> "k") @@ ("L" :> "l") @@
  ("M" :> "m") @@ ("N" :> "n") @@ ("O" :> "o") @@ ("P" :> "p") @@ ("Q" :> "q") @@ ("R" :> "r") @@
  ("S" :> "s") @@ ("T" :> "t") @@ ("U" :> "u") @@ ("V" :> "v") @@ ("W" :> "w") @@ ("X" :> "x") @@
  ("Y" :> "y") @@ ("Z" :> "z")

\* ASCII_LOWERCASE[i] -> ASCII_UPPERCASE[i]
TO_UPPER ==
  ("a" :> "A") @@ ("b" :> "B") @@ ("c" :> "C") @@ ("d" :> "D") @@ ("e" :> "E") @@ ("f" :> "F") @@
  ("g" :> "G") @@ ("h" :> "H") @@ ("i" :> "I") @@ ("j" :> "J") @@ ("k" :> "K") @@ ("l" :> "L") @@
  ("m" :> "M") @@ ("n" :> "N") @@ ("o" :> "O") @@ ("p" :> "P") @@ ("q" :> "Q") @@ ("r" :> "R") @@
  ("s" :> "S") @@ ("t" :> "T") @@ ("u" :> "U") @@ ("v" :> "V") @@ ("w" :> "W") @@ ("x" :> "X") @@
  ("y" :> "Y") @@ ("z" :> "Z")

lower_char(c) == IF c \in DOMAIN TO_LOWER THEN TO_LOWER[c] ELSE c

upper_char(c) == IF c \in DOMAIN TO_UPPER THEN TO_UPPER[c] ELSE c

RECURSIVE lower(_)
\* str.lower()
lower(s) ==
  IF s = "" THEN "" ELSE lower_char(CharAt(s, 1)) \o lower(SubSeq(s, 2, Len(s)))

\* str.lstrip(): drop the leading whitespace
RECURSIVE lstrip(_)
lstrip(s) ==
  IF s # "" /\ CharAt(s, 1) \in WHITESPACE THEN lstrip(SubSeq(s, 2, Len(s))) ELSE s

\* str.rstrip(): drop the trailing whitespace
RECURSIVE rstrip(_)
rstrip(s) ==
  IF s # "" /\ CharAt(s, Len(s)) \in WHITESPACE THEN rstrip(SubSeq(s, 1, Len(s) - 1)) ELSE s

\* str.strip()
strip(s) == rstrip(lstrip(s))

\* str.capitalize(): first character upper-cased, the rest lower-cased
capitalize(s) ==
  IF s = "" THEN "" ELSE upper_char(CharAt(s, 1)) \o lower(SubSeq(s, 2, Len(s)))

RECURSIVE replace_char(_, _, _)
\* str.replace(old, new) for a one-character old
replace_char(s, old, new) ==
  IF s = "" THEN ""
  ELSE (IF CharAt(s, 1) = old THEN new ELSE CharAt(s, 1))
       \o replace_char(SubSeq(s, 2, Len(s)), old, new)

---------------------------------------------------------------------------
(* hashlib.sha1(key.encode('utf-8')).hexdigest(), tabulated for every key  *)
(* the model forms: the titles over the title alphabet up to five          *)
(* characters, the default title and the titles with control whitespace,   *)
(* in either case, joined to the dates of the model.  The values are the   *)
(* real SHA-1 digests.                                                     *)

SHA1_HEXDIGEST ==
  (((((((((("-2025-10-27" :> "8977165aec1355c5e8bdd904bbf9820326ef6a41") @@
  ("a-2025-10-27" :> "e95eb7396b0ecb64d79511e588eda565058b66c3")) @@
  (("A-2025-10-27" :> "413796dd66023abada39f65b51d4466074b7a692") @@
  ((" -2025-10-27" :> "09e617cc846d5de88a7a50a455bca69677a61666") @@
  ("aa-2025-10-27" :> "0e52775f32a71e22b30217a6249b6496b4c2df8e")))) @@
  ((("aA-2025-10-27" :> "4f9fda6e43ed280d166055b515fdaad598690cf1") @@
  (("a -2025-10-27" :> "101d75bcad2c3b37aeeb2096c101aac04c4d0256") @@
  ("Aa-2025-10-27" :> "a7504b9c30ca0863cd435d28f2669f6a79e66635"))) @@
  (("AA-2025-10-27" :> "69dde3253cbd71fe24ecfa766dac4cc6b7a516d8") @@
  (("A -2025-10-27" :> "f10471cf1dfee2de566c8728991340aa543ddee8") @@
  (" a-2025-10-27" :> "ad0c61aebcb8aa0413c2e4add0e85d61e2ae00ba"))))) @@
  ((((" A-2025-10-27" :> "b3aa87422eda2fe669db6ec68a82444e3030725e") @@
  (("  -2025-10-27" :> "b019178fd6fc8c264df987e65bf701101387dfaa") @@
  ("aaa-2025-10-27" :> "e82dd98c368b4c850da38dcfd0b2033d2d02418a"))) @@
  (("aaA-2025-10-27" :> "4cfd9f7be13ab14237c386a5c3c52967abdfce41") @@
  (("aa -2025-10-27" :> "7647aae261f1cf233a0d7ef006fb05d35761e936") @@
  ("aAa-2025-10-27" :> "5275b4f49ec3ec073ef56fe8c3ada7371b8c48ab")))) @@
  ((("aAA-2025-10-27" :> "b4492548fb3256067444d7cf299d74fffded585a") @@
  (("aA -2025-10-27" :> "c96902e0c90a5f8ed0c48401f68f09506819092c") @@
  ("a a-2025-10-27" :> "265a1ad0b5f4d7583be3e10673eeb4cdd9273bea"))) @@
  (("a A-2025-10-27" :> "ed2a0893abc4be4c35b247c34524c3ee7dc74fc4") @@
  (("a  -2025-10-27" :> "df705a54bb2355539e5aee0e0fde9f57f59098a9") @@
  ("Aaa-2025-10-27" :> "3581293ae8d6f690b1e2a9c1c04aec42c0d12eb1")))))) @@
  ((((("AaA-2025-10-27" :> "210f2984fecd1697910640274219aa1cc25279d4") @@
  ("Aa -2025-10-27" :> "a80ce0934a27eb44b37159f8891e1e70ea101f66")) @@
  (("AAa-2025-10-27" :> "a33ad7010555507d89a60296b0efcf33332b5962") @@
  (("AAA-2025-10-27" :> "725daca8bdcbd47da3f1b776fcfd04828510c938") @@
  ("AA -2025-10-27" :> "cb288edf3eaa133603b36db31bffe97eea88ba13")))) @@
  ((("A a-2025-10-27" :> "9a6993e05ae992660d066d4740c0d65a9078ef9c") @@
  (("A A-2025-10-27" :> "dd087f7d8788f4618642dba4aec93d8e97f6feef") @@
  ("A  -2025-10-27" :> "c10b8cf3d4cd9e61bade3ee2067be06798d1fe5a"))) @@
  ((" aa-2025-10-27" :> "2211445bd1a588cdb22b19168f94c2b1f3c9af64") @@
  ((" aA-2025-10-27" :> "439ece223a0568378b336c2d01d710511b5928ea") @@
  (" a -2025-10-27" :> "db3d298ad700bb55d4fd4d499a6313ca81194e76"))))) @@
  ((((" Aa-2025-10-27" :> "ed17ae6f8177ec635d59e886cfbd13154f9dbc35") @@
  ((" AA-2025-10-27" :> "6124f644f9447a483c24e1a0c00514d61df5f927") @@
  (" A -2025-10-27" :> "c5c11440de2de8af26e51dffeab31a6794bdceb4"))) @@
  (("  a-2025-10-27" :> "7ba4858b9a28bedafd37aa34aa19792e733f6bcc") @@
  (("  A-2025-10-27" :> "c6622960f8f25e1e788302e2a8bea774c549a4a5") @@
  ("   -2025-10-27" :> "a51e606224803dc90a3efc5c1ae61e434cb2a11a")))) @@
  ((("aaaa-2025-10-27" :> "d259c2538df424ea23cc005e779d7afb3ab14b0d") @@
  (("aaaA-2025-10-27" :> "f228a4c85781a004bdc0fdeaa7bb9cb3ed644045") @@
  ("aaa -2025-10-27" :> "7947d8605cf41396c1fa2cdb1927733eb01fb37a"))) @@
  (("aaAa-2025-10-27" :> "0f56e90334e318d798e123e8fbb0a27dc40296ab") @@
  (("aaAA-2025-10-27" :> "fd29527c58e8eb7f05b2a69dbc21a210c02b97d6") @@
  ("aaA -2025-10-27" :> "8c5de959a6243efa83d2aebba4b0e314cde0e553"))))))) @@
  (((((("aa a-2025-10-27" :> "f31a6ce0d3e60fe9db6c5e51170fa80bf30a08b0") @@
  ("aa A-2025-10-27" :> "f086e1955d189f18161eea85243486ce42ca1a78")) @@
  (("aa  -2025-10-27" :> "c8092f5a79d9637174f694b3e8ffd8d9f6f3796c") @@
  (("aAaa-2025-10-27" :> "4e522fff394e13678ea5f9809cb2857b26ba01b4") @@
  ("aAaA-2025-10-27" :> "759e74e66fa134b31e1ea23f002f8bb721003cac")))) @@
  ((("aAa -2025-10-27" :> "822c9d8af07d83fce998a5e269ed504a2bffd337") @@
  (("aAAa-2025-10-27" :> "1d3a6cda32ee66d498490740e76c784cd12f46b2") @@
  ("aAAA-2025-10-27" :> "87f6d64056f0053e43f86fd1ca256b1119f0e82c"))) @@
  (("aAA -2025-10-27" :> "c34d7fb6a87370b5375d7fbcc26e66dceff61ad8") @@
  (("aA a-2025-10-27" :> "9349671342e1a2b7b256d51ebd9b9d1807b84e2d") @@
  ("aA A-2025-10-27" :> "26c94a41d9e3218f61f998f49d7ce968ff68879e"))))) @@
  (((("aA  -2025-10-27" :> "f1e7466964d734ff416ec2704d428f878451c6da") @@
  (("a aa-2025-10-27" :> "913c6f473209cad8018af833e97772c60df294c7") @@
  ("a aA-2025-10-27" :> "93fd6e0cab9e58c0bdf4e8507fb7dab2ff285ae0"))) @@
  (("a a -2025-10-27" :> "e70adcd7f5663ad61ee33a589c8d9a89ec9388e0") @@
  (("a Aa-2025-10-27" :> "8e7dcb5ad73d65bd5f382d7e0dd9ed5caa456a61") @@
  ("a AA-2025-10-27" :> "f61014dc7faee7d6d1d235dd1d24f6fdd2e5362f")))) @@
  ((("a A -2025-10-27" :> "8ce1aafda5f86c07df016807a97723582dfbc380") @@
  (("a  a-2025-10-27" :> "8badf8ef4da2b41774997f26ecf006999d1a0a65") @@
  ("a  A-2025-10-27" :> "9304d10c0541a4b60d14f516c0628e2820d733ec"))) @@
  (("a   -2025-10-27" :> "91fcea3f71b869fb5693817ec6141bcd540231f9") @@
  (("Aaaa-2025-10-27" :> "b2b2a87d5574b9f1de4eaa9ea447dc8dcdd5ced5") @@
  ("AaaA-2025-10-27" :> "30c1e83dfc95e9a3978d24a3eadb12d0b2392b14")))))) @@
  ((((("Aaa -2025-10-27" :> "15be8123af55bdbefad6d287eea2de31418c3cd3") @@
  (("AaAa-2025-10-27" :> "4b8f52894096b59059214f0fc84c3dfba3ab8d91") @@
  ("AaAA-2025-10-27" :> "5a724138aa61d650aef7dbe059e1f2671a2a1ee5"))) @@
  (("AaA -2025-10-27" :> "4c07d9c1863be1f76e6995c91940fc10e6038808") @@
  (("Aa a-2025-10-27" :> "0c67d6cb4d6890a2cf8d1abb354c6ac8dbae7df4") @@
  ("Aa A-2025-10-27" :> "fe490799b6a047cdce40f389a9b29aef59d77575")))) @@
  ((("Aa  -2025-10-27" :> "440e12d488a30ad5cd223697a46be41138751177") @@
  (("AAaa-2025-10-27" :> "8519ca12fe38807eaf3c4e04795ddb47855dbb11") @@
  ("AAaA-2025-10-27" :> "a0eb7a14fb85ef9d2d3c48b861717917abe1fc4e"))) @@
  (("AAa -2025-10-27" :> "3b4a77005386331abc36f723221683e5cfb212e3") @@
  (("AAAa-2025-10-27" :> "c261b090301805760a12e2b22b177b346becc404") @@
  ("AAAA-2025-10-27" :> "69e6144903acb7088178e9749dcce407bc0beb6b"))))) @@
  (((("AAA -2025-10-27" :> "ec7d116ed4c984e31af3a556124d44bd8712d97b") @@
  (("AA a-2025-10-27" :> "70c4ccd04ab36956d346af2a5734ec10d058a89a") @@
  ("AA A-2025-10-27" :> "c8607fc9cca90ae7c6249a46ee2106c5ee5ba759"))) @@
  (("AA  -2025-10-27" :> "e000b659f5194e668e66d070caf71bf9ac1b9f69") @@
  (("A aa-2025-10-27" :> "46c03a34d5e322667e719c993001139b63b5c09a") @@
  ("A aA-2025-10-27" :> "aefe3e8ee56ada4940487a9048c105bc89edfc92")))) @@
  ((("A a -2025-10-27" :> "111621dac8d346e82606d3f475e7be6e5378d689") @@
  (("A Aa-2025-10-27" :> "490ce35d6ce49f03ddcc378e08695e23a5783de8") @@
  ("A AA-2025-10-27" :> "96aebf401efde718fa29542ea673e6fd55665fa2"))) @@
  (("A A -2025-10-27" :> "433e67b171d6568959d94036ac113c7b3ed566a6") @@
  (("A  a-2025-10-27" :> "6cb94f5def8d98d7f9467d14e353c23646a71f52") @@
  ("A  A-2025-10-27" :> "0c7631eb13651ca9e46f616d1a95f2ae71f0234f")))))))) @@
  ((((((("A   -2025-10-27" :> "9df49f136a694467dc1e96642a430a5de3699835") @@
  (" aaa-2025-10-27" :> "026a52dcc678d46372b84c8b905948969ab07acf")) @@
  ((" aaA-2025-10-27" :> "dec673fe513ee803594a441b1ec6c49d1eb5815b") @@
  ((" aa -2025-10-27" :> "c6fe48bbadbf3f5dafc7f5067b492887847953a3") @@
  (" aAa-2025-10-27" :> "58b2648146c0fd9f46b97adb38134e3c61966d24")))) @@
  (((" aAA-2025-10-27" :> "3e63a6f680b9073f4b5751f1f8645478e2d1b4dc") @@
  ((" aA -2025-10-27" :> "1ed1912a88ac4c34ebacdb20f2f81d00a5eeb6d3") @@
  (" a a-2025-10-27" :> "1fd228455f44ffb188ed5bff8946721f2807e556"))) @@
  ((" a A-2025-10-27" :> "4c7207a6c6fdd7b213cf90af18e480fda91bd99c") @@
  ((" a  -2025-10-27" :> "232a577aa13ea2b0c42e44e59f7fe5ca7cd6f956") @@
  (" Aaa-2025-10-27" :> "512d3ed506a114baa6feb5d9ab4e8cea088c027d"))))) @@
  ((((" AaA-2025-10-27" :> "caeb7a2024e550426a1f14509a3b829c5f70e9b4") @@
  ((" Aa -2025-10-27" :> "80f57b6e486e529c3ca3ad64cada19b7f13a7f25") @@
  (" AAa-2025-10-27" :> "a29529d9b0e90406e98e78ad8510660c4e2762f9"))) @@
  ((" AAA-2025-10-27" :> "a559265884103857b8c455e0fcf606ea07c5ef80") @@
  ((" AA -2025-10-27" :> "614cd70d65ee4be0a033c5fafb4ff4606e74bb5f") @@
  (" A a-2025-10-27" :> "feff065708622440bde2c96db89466417a1dbc5c")))) @@
  (((" A A-2025-10-27" :> "60c7c0bc742d3aff9461b89760377131895826ac") @@
  ((" A  -2025-10-27" :> "fbb25ee9a8dc1828c9a1494244168d2de2523985") @@
  ("  aa-2025-10-27" :> "ad69dcca5baf810703d66ad0716817a4d52c35e7"))) @@
  (("  aA-2025-10-27" :> "be21ed2bce2eb4d44046242c607f2d2cafe475bc") @@
  (("  a -2025-10-27" :> "552c7b8f8ae2687d4cb55f4f18e440f56f775e25") @@
  ("  Aa-2025-10-27" :> "d2791e2a638d68d4bfbef5fdc4e99eae75138915")))))) @@
  ((((("  AA-2025-10-27" :> "6acad541de387276c1a00e8bcf745aa2478236a0") @@
  (("  A -2025-10-27" :> "e60e68ec49c2899bbb35030ed36fae71d0102dcc") @@
  ("   a-2025-10-27" :> "c6ab30190cbcc1064361432691c6939c81d516bd"))) @@
  (("   A-2025-10-27" :> "8928b6460d2e42808032dfc3ee063465cc5c3369") @@
  (("    -2025-10-27" :> "bb12aad2e15efc83770fdf122d2ebb6fc9e1f29b") @@
  ("aaaaa-2025-10-27" :> "213b427763ea4a1c9f5f72636060e738509b3fde")))) @@
  ((("aaaaA-2025-10-27" :> "cc6f831450e773ed28b6af68a92994c8da2d26f6") @@
  (("aaaa -2025-10-27" :> "4d798072f86bfd1065da4347c006de845f7b75ed") @@
  ("aaaAa-2025-10-27" :> "fadc7c732f7eaaba27270734f73acce787170bb4"))) @@
  (("aaaAA-2025-10-27" :> "8a820e76a0d85349f295e331902a50fd4ceb5ec0") @@
  (("aaaA -2025-10-27" :> "de1b4e754ecf459849d8833d6b95593f0ff441ee") @@
  ("aaa a-2025-10-27" :> "ae6a000b481baa42d3f352fbbd5cfca212b4dc7e"))))) @@
  (((("aaa A-2025-10-27" :> "762a8a0c4cf94ee89d2d8a76e80c2aed5a376c28") @@
  (("aaa  -2025-10-27" :> "31f9eb1ce181d7cae496dd9ee1a88103594faead") @@
  ("aaAaa-2025-10-27" :> "80bc691ace4f3ce9d7a66ad70a1a26f0fbc64cd2"))) @@
  (("aaAaA-2025-10-27" :> "4e2cf8b40cd8599eea2dc431e9a8c89467501ee0") @@
  (("aaAa -2025-10-27" :> "a7cdf43c45f2086eb8af27802a6c3f87853f200c") @@
  ("aaAAa-2025-10-27" :> "7077eea8bf76e2c4565e847e41977c96418a84a4")))) @@
  ((("aaAAA-2025-10-27" :> "eb411617d72b3954bb18c4794fcfd1613d4a27c0") @@
  (("aaAA -2025-10-27" :> "79536f3b93d59a6b648d5e0f77dc279122d6e19b") @@
  ("aaA a-2025-10-27" :> "53848d00f816ff257a7117425d5bf81d71a52b96"))) @@
  (("aaA A-2025-10-27" :> "4d647590e433dbd9cd6f019f66f83b9d3086bbad") @@
  (("aaA  -2025-10-27" :> "9b9143e6fdb44d42776b5fb0ddfd4f6887f15266") @@
  ("aa aa-2025-10-27" :> "a17a9fe516f1fcdfabb553e1e2902c37d5dde743"))))))) @@
  (((((("aa aA-2025-10-27" :> "3a2fa38fe5b7556eafc7c5f3c58265173f632113") @@
  ("aa a -2025-10-27" :> "8d7ea850962f75366bc4c0fbb99a4ad5921a9f6c")) @@
  (("aa Aa-2025-10-27" :> "caaa2f93aa539119843db82d77f14fb36c40033d") @@
  (("aa AA-2025-10-27" :> "284b098fdc0e1063698cf74456d27fe6a8ffdeee") @@
  ("aa A -2025-10-27" :> "bcd7a12142e466d01e650c98a4aaaaddc07a8e65")))) @@
  ((("aa  a-2025-10-27" :> "ace61800fd820168b612e1e3148dad6029d73b77") @@
  (("aa  A-2025-10-27" :> "17a328ace28783b0cfb9e9c48a6025941b265a76") @@
  ("aa   -2025-10-27" :> "1abcabf9d751edee331255431169ea8f5390966e"))) @@
  (("aAaaa-2025-10-27" :> "a5c54da019afadd34e06ad220dcfa3134a1ea397") @@
  (("aAaaA-2025-10-27" :> "fd8715a81bda012241f1e254a384a704c6a26359") @@
  ("aAaa -2025-10-27" :> "5ada8fe49cda1732cae321a87c22653c841e2fc0"))))) @@
  (((("aAaAa-2025-10-27" :> "eb913ccb855a5ebab201c86e59a7b6501c29d7f5") @@
  (("aAaAA-2025-10-27" :> "a7dfcfbb030148551ef31f9347d18cf6ef593d00") @@
  ("aAaA -2025-10-27" :> "71eababeb119d73e44707ec2de3c1cfd0da88866"))) @@
  (("aAa a-2025-10-27" :> "8447c25a5c05d1931f651891cf9a7d872ddea699") @@
  (("aAa A-2025-10-27" :> "46a74aa1747beeda3f3abd44095ded1bafb3a800") @@
  ("aAa  -2025-10-27" :> "1500f5d489d4f77d99090748d4d48b09abd1dd3e")))) @@
  ((("aAAaa-2025-10-27" :> "6fa3ee68ffd40cb4fb882d5b85308dbeb3843f3c") @@
  (("aAAaA-2025-10-27" :> "b9d2310c0ccf75c7660dea67114b2abc1c62fee9") @@
  ("aAAa -2025-10-27" :> "5ad4345cade635afae2789e651952cc8a0efe569"))) @@
  (("aAAAa-2025-10-27" :> "8039d16ebefbd7b7476d7a847ee52bcfcd655349") @@
  (("aAAAA-2025-10-27" :> "14344dc9c6f232b929e5e0dd1091cc54bca52d50") @@
  ("aAAA -2025-10-27" :> "ba66a6e4c5aaa22aa8f06db352854e332852bd35")))))) @@
  ((((("aAA a-2025-10-27" :> "1024dacd1562f57e057574fc021e60dad690dcae") @@
  (("aAA A-2025-10-27" :> "44fd8443a1fa73605fecbbecd4b657afdb767173") @@
  ("aAA  -2025-10-27" :> "d0982c17c10e1124be07aeb73217e664dbb3871e"))) @@
  (("aA aa-2025-10-27" :> "6a45097d17b8f485f8d0a8f7bb74da5cf696b120") @@
  (("aA aA-2025-10-27" :> "d0742a6817ca262cee9e4bbd240cba14fe3dfe92") @@
  ("aA a -2025-10-27" :> "3422fdbc5d159d904eeb70820692066f67c01fab")))) @@
  ((("aA Aa-2025-10-27" :> "a290c4d46819a0c87f19b3615ac295f6618e465b") @@
  (("aA AA-2025-10-27" :> "58a30fd41e8127bf62643fd538dab2d8f2e0650b") @@
  ("aA A -2025-10-27" :> "a450529185de2ede93021769fa9a95637850d340"))) @@
  (("aA  a-2025-10-27" :> "8beb8b4ea86374e8af6df347a666cc955ffc4c2a") @@
  (("aA  A-2025-10-27" :> "cf1b58b2fdb36d6a19d6242dd6ed5b2aeebf05c9") @@
  ("aA   -2025-10-27" :> "d96a6eb3604897f7adaeadb45efc8b30c201aae5"))))) @@
  (((("a aaa-2025-10-27" :> "a8087bc5050be4b8114070bea72186136dac5241") @@
  (("a aaA-2025-10-27" :> "436de3a8909123db1cd5f3db43477636fcd53656") @@
  ("a aa -2025-10-27" :> "a7a3adf6a5a413c9bfd60ed39f61379e36091785"))) @@
  (("a aAa-2025-10-27" :> "504b444e7d31996a5aed3b79516b1104dfc48e2f") @@
  (("a aAA-2025-10-27" :> "7fcbf3bc959b5d4ebb3210c6ceea45b28763afbd") @@
  ("a aA -2025-10-27" :> "c34356bf4379990792040a71537978bb6b334058")))) @@
  ((("a a a-2025-10-27" :> "f9d16ed678d5ded456f0cc3604447385b31636e4") @@
  (("a a A-2025-10-27" :> "6e705c52b73bd194002f8b0f7e4adab483052e14") @@
  ("a a  -2025-10-27" :> "0074effa03cdf2f66de96724b358111e087fbd27"))) @@
  (("a Aaa-2025-10-27" :> "67bcfe06306fcd4f3ddcd5f6b974fb82afd55abf") @@
  (("a AaA-2025-10-27" :> "83aa816c2257ad176bbf31b1abc9e64a37592dac") @@
  ("a Aa -2025-10-27" :> "5bd660bb4e0e18399d7397f5ca85fcf7c98f3178"))))))))) @@
  (((((((("a AAa-2025-10-27" :> "99440d85e8627681ce8c7cbdd96304f9e7f7cec1") @@
  ("a AAA-2025-10-27" :> "f6980c62aba6b4b86c082e9160f158e3c66bc4f2")) @@
  (("a AA -2025-10-27" :> "ee57bf2a6f451c69bb25982efd7ab33aac87837a") @@
  (("a A a-2025-10-27" :> "757dcbf2ec391823467eaf487c2c1e3ec71e5d28") @@
  ("a A A-2025-10-27" :> "208afd9a4802b631eab92572d43e90f24d4818ea")))) @@
  ((("a A  -2025-10-27" :> "59a3aec9c602c08b0ad2cb7d143175d802c9f941") @@
  (("a  aa-2025-10-27" :> "69c7c5a2dfae9fe17624cb67df522b501a02b555") @@
  ("a  aA-2025-10-27" :> "624407cf997d75d12f32c75e62f5acd513612e75"))) @@
  (("a  a -2025-10-27" :> "ecd991e16f71853949838855427a6b14acbb60c5") @@
  (("a  Aa-2025-10-27" :> "bf79a02a27abf2c9bc5dc3ef96d58bcc6bdde20a") @@
  ("a  AA-2025-10-27" :> "5a36df0fc8a2344c45e2b504b81c22dadec416c0"))))) @@
  (((("a  A -2025-10-27" :> "3f3c84ac91086ec2dcdfecc147af8b4dc1b7b2b6") @@
  (("a   a-2025-10-27" :> "3c3db033e6a5c83e564bc9144d6ea8d9cb53e20f") @@
  ("a   A-2025-10-27" :> "d077579855548862e61eaa768ea8ab78db173d7f"))) @@
  (("a    -2025-10-27" :> "a77da5445c01f491dcee7f057feee018e4a85700") @@
  (("Aaaaa-2025-10-27" :> "726587a7667d2479fa658a8b2899ffef52e83f19") @@
  ("AaaaA-2025-10-27" :> "4c19eebd98e15c2378141869a1f68d34a0a41745")))) @@
  ((("Aaaa -2025-10-27" :> "d875d73a24c0ca8636fe49064f42ab501287b2c0") @@
  (("AaaAa-2025-10-27" :> "004adbf606b7b46cb16a4498b30a8f8fb030f89c") @@
  ("AaaAA-2025-10-27" :> "ed081457852217ba6868653ec3f9c516c66b1568"))) @@
  (("AaaA -2025-10-27" :> "082931a56a45ebafd91893e090854ceec2e39e6e") @@
  (("Aaa a-2025-10-27" :> "530be93216e15f8eaea1b1356c18f494bec3fe9c") @@
  ("Aaa A-2025-10-27" :> "f537ec54eb464145cee2c39b7d486c6d121ed298")))))) @@
  ((((("Aaa  -2025-10-27" :> "c56aefa1f3daa51c683449776f66df3b13d73fb1") @@
  ("AaAaa-2025-10-27" :> "d2d95ca4fcc3863ed03e6db98587c4bdc86ec328")) @@
  (("AaAaA-2025-10-27" :> "10e247c1d50278aa7fc7eab0daf93d87f3a223c0") @@
  (("AaAa -2025-10-27" :> "eda6307f2ec8cf8734575fb70dd8607b6751752c") @@
  ("AaAAa-2025-10-27" :> "5a7e61bc1bb40c9990c7f7e5dc713fc7e755616f")))) @@
  ((("AaAAA-2025-10-27" :> "6753adef3d5599ab07612faf3cddb853f436e77f") @@
  (("AaAA -2025-10-27" :> "6a60a6a9d22996543fa072b2271c060c4e9848aa") @@
  ("AaA a-2025-10-27" :> "496cf45f6697076260a2e6e89286b27fd4a78e56"))) @@
  (("AaA A-2025-10-27" :> "b7a94e128aa9b9f8dd0664fecf46bfd17ffd2908") @@
  (("AaA  -2025-10-27" :> "27f0fdfd0d78c028efcc3f2f29de0f7b67b631de") @@
  ("Aa aa-2025-10-27" :> "f3dde93a5cbc0d44464aa9978e89f9256e57b474"))))) @@
  (((("Aa aA-2025-10-27" :> "4217f4fc9b353a0ff3913c3c66fdd4db5a26bcb2") @@
  (("Aa a -2025-10-27" :> "c6f3cb004b463e880badcfef734de94bf4d19c38") @@
  ("Aa Aa-2025-10-27" :> "27ddebf668311176fa482d0044cfc2b6fd3e113c"))) @@
  (("Aa AA-2025-10-27" :> "c04845ea06ff40606bd3046814cdc1bbd65afe00") @@
  (("Aa A -2025-10-27" :> "2ddcbe5f3b6d717461978d5c1c1776bf0d1d9c72") @@
  ("Aa  a-2025-10-27" :> "ce657a9e2f9f58f9dc0470c3a574ba8cab67d1cf")))) @@
  ((("Aa  A-2025-10-27" :> "79e62a0b2373d004952583f1984acd7359b93621") @@
  (("Aa   -2025-10-27" :> "7afa46d91c16fb1e23395dacd57ac55b83d62ad8") @@
  ("AAaaa-2025-10-27" :> "aad91e6f56da112e8c3bc3140e4fda0d75504d65"))) @@
  (("AAaaA-2025-10-27" :> "056848e4810a3d4ccf34d49a219a7cbebb88e066") @@
  (("AAaa -2025-10-27" :> "d3398c500132270dc868dff1d05b61c6e14e7dbf") @@
  ("AAaAa-2025-10-27" :> "0cc1e1da1f49bfd46295fa6ad427476a65aa04b3"))))))) @@
  (((((("AAaAA-2025-10-27" :> "a854c2dbbcf94af6a04b4f40c1028c3530bc7898") @@
  ("AAaA -2025-10-27" :> "10559a2a0b1ad1d86347fee731134fac65e40a38")) @@
  (("AAa a-2025-10-27" :> "4f1387d486d7721fb095c9015c88fe52eb191671") @@
  (("AAa A-2025-10-27" :> "c472fcb4bfd8d4a98c5014849eefa5499e283c63") @@
  ("AAa  -2025-10-27" :> "1ca9812565d87abf843800592f14c2ea42b97e0b")))) @@
  ((("AAAaa-2025-10-27" :> "4545d64eca8b12d83194ea4a044d34232e404bb7") @@
  (("AAAaA-2025-10-27" :> "ddfe5f8431d51732fd247bb23b1bbf912d3701fb") @@
  ("AAAa -2025-10-27" :> "d1a2f67f549de99e3cda88723367cda12be1b5d5"))) @@
  (("AAAAa-2025-10-27" :> "a6ce2cbd5b099922d3089d05ad213f03ebf2087d") @@
  (("AAAAA-2025-10-27" :> "1dd3039cf1fe70905ec6435484c4bf6bc44bdcad") @@
  ("AAAA -2025-10-27" :> "423868f4d9edd78bf7e441376b8de0c942384943"))))) @@
  (((("AAA a-2025-10-27" :> "8acacf808544ceeb6795e22973ebd1a0f3397730") @@
  (("AAA A-2025-10-27" :> "647127ca5b53bfb37d3c593e0d8a3a4f99fdc4d2") @@
  ("AAA  -2025-10-27" :> "64d38fd75380eacb281c84decaf6bab20e5faee0"))) @@
  (("AA aa-2025-10-27" :> "d6362c15b64c8c52fa56d95a5c3c8b848918ab58") @@
  (("AA aA-2025-10-27" :> "a932d3157017d01b5640bade13a5601e6fdaaf20") @@
  ("AA a -2025-10-27" :> "894b950f432b8227873c96e5635ecf594a377959")))) @@
  ((("AA Aa-2025-10-27" :> "73777e978a7d8572feba987171f2e6fbf7f9d2a3") @@
  (("AA AA-2025-10-27" :> "158f93d1c9c206bf833037980ae1f7130c989f32") @@
  ("AA A -2025-10-27" :> "cf2514ca91dcc8ee5be161fe90f2f0996cd6ada7"))) @@
  (("AA  a-2025-10-27" :> "11fa91096d4307981aab65575d467c54b15f99e1") @@
  (("AA  A-2025-10-27" :> "2391bbb14040eeeaac8f245831cef82ad8984c43") @@
  ("AA   -2025-10-27" :> "c65026586380ee3930a2ba66a9aad6e020884d9d")))))) @@
  ((((("A aaa-2025-10-27" :> "548a580afe1efdd9fb1bc4d82a826d43c18ead23") @@
  (("A aaA-2025-10-27" :> "6308d1782926dcf262411d0d0df055091627df95") @@
  ("A aa -2025-10-27" :> "443effbe0090b58e29ebe881b6e3626d6a4c63d2"))) @@
  (("A aAa-2025-10-27" :> "3a98e7ed7431cacdbfe4cf053f86268aa4e56b8c") @@
  (("A aAA-2025-10-27" :> "5d5e8c998df355d74423a85e9444d12cf7f568ea") @@
  ("A aA -2025-10-27" :> "1889030bfda9f4749f90cba69d444c8f80d995f2")))) @@
  ((("A a a-2025-10-27" :> "a3f286ce98255badd9a86fe9eafdd666c745ab4d") @@
  (("A a A-2025-10-27" :> "bb78b69ff92a03b7a1290e414033a10127a392b4") @@
  ("A a  -2025-10-27" :> "f7539a2e203bd0c2d773e418ed79c9f149f293cd"))) @@
  (("A Aaa-2025-10-27" :> "7cbc5d8a90e1c75f1c05a11f7580b974d8834ede") @@
  (("A AaA-2025-10-27" :> "f02c71b6b965b3f70ed9a813bbb315e9ce84e8f1") @@
  ("A Aa -2025-10-27" :> "0dc4c1221f410ebb29a20fcba35d05ccba3dacf8"))))) @@
  (((("A AAa-2025-10-27" :> "8b9d8788d0fc645d26fe39befc164818ea8da834") @@
  (("A AAA-2025-10-27" :> "c26f850b9c28917b66470088ee798e7dc457a88e") @@
  ("A AA -2025-10-27" :> "3385e7b7bb915fc0f51b51d2ae3a07dc1de57196"))) @@
  (("A A a-2025-10-27" :> "b82987776a5118da3ed2ce83801df5ee5203ecc6") @@
  (("A A A-2025-10-27" :> "88bcc31d2ef3d797df1ff8463d12d72e3bf339c9") @@
  ("A A  -2025-10-27" :> "3dacb3409cf77abc26edc75c86933d31a97d0d61")))) @@
  ((("A  aa-2025-10-27" :> "ecb67462b06d586358be324b7c9639e2d10aaee8") @@
  (("A  aA-2025-10-27" :> "f09154f1be96f77625d70fb9ba4ce90670fea0b0") @@
  ("A  a -2025-10-27" :> "f2ff7b5531b64a8f7b9e660c3315684245e34f90"))) @@
  (("A  Aa-2025-10-27" :> "70cb6fb5227bfb2de2a2f8912007e2315ab40c51") @@
  (("A  AA-2025-10-27" :> "6a3839ef8ac0e27f5ae3f537cf55bda30d8f62a2") @@
  ("A  A -2025-10-27" :> "c9cf6b8580bd00aa40d6f214bbaa59cbcfb89bc5")))))))) @@
  ((((((("A   a-2025-10-27" :> "8ace6633cc2bbe8bc29a2d198e69606d0134cbd5") @@
  ("A   A-2025-10-27" :> "fcc516427e33872d33d85e65d2c679e724f87f4d")) @@
  (("A    -2025-10-27" :> "becdd1f17d2930950e795d63caa0d4613b4d7be3") @@
  ((" aaaa-2025-10-27" :> "eb25121e77c28d371cf86740cd296ca69a816bbc") @@
  (" aaaA-2025-10-27" :> "7147cd51e07fcd73973783a279786faa766fa80c")))) @@
  (((" aaa -2025-10-27" :> "eb521501fee731af98307632ab149a3a03df447c") @@
  ((" aaAa-2025-10-27" :> "05e9911e78ef55c0931295e79ef26a42c5e850db") @@
  (" aaAA-2025-10-27" :> "5b8faf4c75e11400240712f5170608b8850d52fe"))) @@
  ((" aaA -2025-10-27" :> "81324d76b7f1b73efb7679e846037bc76e04e020") @@
  ((" aa a-2025-10-27" :> "66c570279e0ba9fcbe5a6419b2b5e7bd1af8e5cb") @@
  (" aa A-2025-10-27" :> "ead5e0a00244edd34c9a3afe8c024e8a1bc83d27"))))) @@
  ((((" aa  -2025-10-27" :> "68d46884d6fc378c2c6a6c2287841c3743f9de47") @@
  ((" aAaa-2025-10-27" :> "000ec33263f62a166eb42daf811602aaf81f2e68") @@
  (" aAaA-2025-10-27" :> "92c7c6c5d2d42e79600c7e02e31fc8b4c333f57e"))) @@
  ((" aAa -2025-10-27" :> "45ea51e5486aced471299b6882cd9612de40fddb") @@
  ((" aAAa-2025-10-27" :> "07e74b83999b3b36fc6e05a3da065a373353496e") @@
  (" aAAA-2025-10-27" :> "fc1ca1ee8591f4af41acf817cb94542a5d37b4ac")))) @@
  (((" aAA -2025-10-27" :> "1d823f4ea3495abd013e42944d2cdddf4b4002d4") @@
  ((" aA a-2025-10-27" :> "41b1d4976247e134c43630ad6ce85fdadaad9495") @@
  (" aA A-2025-10-27" :> "25cba80edb96292315286a3b967feec5393135c8"))) @@
  ((" aA  -2025-10-27" :> "d9b86852535d409ddc07c0db94a0c7620fbfc1e2") @@
  ((" a aa-2025-10-27" :> "8c0bc59c3e8d42aa34225b9efc019689667e01b9") @@
  (" a aA-2025-10-27" :> "40f5b4ab38387ec84685eb2c7d7a61a53a1c02f9")))))) @@
  (((((" a a -2025-10-27" :> "0fcb0ebf395152c4f262ad62e266c13b703679bb") @@
  ((" a Aa-2025-10-27" :> "9243ace7c5a5220ab4dab875144800d87ef033cf") @@
  (" a AA-2025-10-27" :> "f84cac2dfb6f4eebef3d92355c31af61381f82b1"))) @@
  ((" a A -2025-10-27" :> "196e93aedd4df8099320f4aa63bf48c044cbd0cf") @@
  ((" a  a-2025-10-27" :> "34c9eaed35d59b0f3e49d5b211afe7ef75cef72b") @@
  (" a  A-2025-10-27" :> "cab4ddde01ff4b3963bd0227f66a0faf1dc09531")))) @@
  (((" a   -2025-10-27" :> "19a513f3a85d8a072e800c6be95397252d2838dd") @@
  ((" Aaaa-2025-10-27" :> "cb296320d089e5ffc46cd772f64424d8403e4e71") @@
  (" AaaA-2025-10-27" :> "0b18d58e31b2d64fec127854eeae7df52752008b"))) @@
  ((" Aaa -2025-10-27" :> "3bac415bae37713a4c954f8ee8e6fa2338d9338c") @@
  ((" AaAa-2025-10-27" :> "4ac043f927985ea5bec0d9145153b5acf2f48572") @@
  (" AaAA-2025-10-27" :> "de9718ade841b58de287dc9bee56f5011f117aed"))))) @@
  ((((" AaA -2025-10-27" :> "a052972d8db37f26680f936fb2b64188e66542f2") @@
  ((" Aa a-2025-10-27" :> "b7997ec6388afd01b00c8b73b80dc3db7438cabb") @@
  (" Aa A-2025-10-27" :> "20ec0ddee489683a844e67c0443fe3adcb284e42"))) @@
  ((" Aa  -2025-10-27" :> "897d77e21c116d848ab7a5cf276156082efa8912") @@
  ((" AAaa-2025-10-27" :> "56ee14cdacd2ce0856c5816833f6566be29fd3e6") @@
  (" AAaA-2025-10-27" :> "842b1a55e3d98c1c7043fe54d322cf58a005b72c")))) @@
  (((" AAa -2025-10-27" :> "aca92c72958d0c994def2b4eb299c00654689a2f") @@
  ((" AAAa-2025-10-27" :> "6206debfddd36f81876f62cdccdeacf34d3b69c2") @@
  (" AAAA-2025-10-27" :> "59e6eb9eec66dd71e997e188349e296f1d8ed7ba"))) @@
  ((" AAA -2025-10-27" :> "1e6d234933f11cab2526ef6959bcf6dc6370a6c1") @@
  ((" AA a-2025-10-27" :> "c4b9913c58ad241535accf75b1aeeb87d8d8acc6") @@
  (" AA A-2025-10-27" :> "73300b32070f7448e7f6877c9e95020aaae77d0b"))))))) @@
  ((((((" AA  -2025-10-27" :> "c1e3255570eeac966f198ec92bfd0e893fdc62e5") @@
  (" A aa-2025-10-27" :> "e8accc6bf981790f96a8749d866e51adc986b12f")) @@
  ((" A aA-2025-10-27" :> "90ed4ef164049c8ae0fbda71a7867e83d7c9f556") @@
  ((" A a -2025-10-27" :> "56089e2fd29c2bac49a0cff33c9af5bc206fe42b") @@
  (" A Aa-2025-10-27" :> "4e45290b601b37db96ee60824fdbdcdfb4e839b6")))) @@
  (((" A AA-2025-10-27" :> "0c82452213455fd98d8a52aef71b38f95ef877d7") @@
  ((" A A -2025-10-27" :> "e81d681d9d37f4df7e06ed34044e3950ec8f58b5") @@
  (" A  a-2025-10-27" :> "8689ee538e19760f26faf821b4bfb23adb919cec"))) @@
  ((" A  A-2025-10-27" :> "2c27037daa3c8d609d66266252952797a92597c3") @@
  ((" A   -2025-10-27" :> "58644e5cb567b124b5615c29014e1f1271f1ce39") @@
  ("  aaa-2025-10-27" :> "3cef5ae03ed271d30d5a0ef391c8dd2dff36493a"))))) @@
  (((("  aaA-2025-10-27" :> "171825ce3290036ba5005379ef46e35197c98713") @@
  (("  aa -2025-10-27" :> "4a10c05ec68e27edb2ac2fa1f5986702b3f5a427") @@
  ("  aAa-2025-10-27" :> "d2e8b594682cea0a1fff37d3da723baccb5e3db9"))) @@
  (("  aAA-2025-10-27" :> "dece3ea29268b7903dce6736973aab2b5e8e4279") @@
  (("  aA -2025-10-27" :> "25f6ff8d5933438c4051d8a9087591c55db7cd23") @@
  ("  a a-2025-10-27" :> "47df991409cc0956bce02f1e03759dc3a3711465")))) @@
  ((("  a A-2025-10-27" :> "6d38ad75f6d7b26913a195f290a7f2f05fdbd97c") @@
  (("  a  -2025-10-27" :> "50db7ce2ab28fec981649222db1c3c3f39c8b7b7") @@
  ("  Aaa-2025-10-27" :> "b8c38cc6c2bcddaf1a827fb3854b91553ae4d204"))) @@
  (("  AaA-2025-10-27" :> "f9f64cbf28b3bb76177f1ff12b7ce2fe85d8cf14") @@
  (("  Aa -2025-10-27" :> "d928fd0c87bfc2519ee3225e84c874ff63117273") @@
  ("  AAa-2025-10-27" :> "366b25b81fe2c7f9420a2b6ff972efdbcd0275c2")))))) @@
  ((((("  AAA-2025-10-27" :> "d42373bb548986ad9919522f8681cc161a917bb1") @@
  (("  AA -2025-10-27" :> "5eb63e9ae6aa42cb27bd5db8cecd29278de0e251") @@
  ("  A a-2025-10-27" :> "50e4b4a8a312a9ea593a1bb32d2ffe994393b8f4"))) @@
  (("  A A-2025-10-27" :> "8682d3a50749819ec30d9435cb7be522292e45e0") @@
  (("  A  -2025-10-27" :> "0f3196c26f5d63103b57858bf45083d164b9876d") @@
  ("   aa-2025-10-27" :> "8f9f86a4b842dff5652dc7ded41918ebab1a67bc")))) @@
  ((("   aA-2025-10-27" :> "90a2080c948ed1ae554a6a327c98c2ec72acdccc") @@
  (("   a -2025-10-27" :> "ec8496eb5d88855e4f85d5f4bbbbe36f573025e6") @@
  ("   Aa-2025-10-27" :> "1bffd6db7b5272c1cc60af5c45413e893c727673"))) @@
  (("   AA-2025-10-27" :> "efb938b51b33679dc3178d8dab3ecddb66a5415d") @@
  (("   A -2025-10-27" :> "cc489a3b3b1ff8644e5b80c981431a4fc5f10900") @@
  ("    a-2025-10-27" :> "df44832180a6403366007fff8c480d4ed115ff28"))))) @@
  (((("    A-2025-10-27" :> "eb7a3e2d5922ba23a580742fe6e4615fa308106e") @@
  (("     -2025-10-27" :> "99ea5c4b8a3b0bd670211b4670c882be8bda6d8c") @@
  ("Untitled Policy-2025-10-27" :> "276a9ef72d2f18ca9c8ef87ca95304bc755ada26"))) @@
  (("untitled policy-2025-10-27" :> "570009f8a7566aebd515641effca660de04a287a") @@
  (("a-2025-10-27" :> "2812400975c2d655f92e84b7416e28309c02a101") @@
  ("A-2025-10-27" :> "8518da8c79fdd1ef1303df6055d7cfe7c3debda5")))) @@
  ((("a-2025-10-27" :> "3bb7b67004bdcde132dcf2f1e2bda7fc92da9ec4") @@
  (("-2025-10-27" :> "81b2e9b3798cfccd936b3360db17a196ad4a429e") @@
  ("-2025-10-28" :> "9776dab61fd5d7678b76e98a7d3164fc3ade1e9a"))) @@
  (("a-2025-10-28" :> "21d08207e2450dfe639bb89b4683a1cd4923784e") @@
  (("A-2025-10-28" :> "e5f04959cec0080b5005f68a3de596e976d43d71") @@
  (" -2025-10-28" :> "68fca3d16869a8a7e53b333f866dbe85d30bb83c")))))))))) @@
  ((((((((("aa-2025-10-28" :> "2ae63976e2a4f7cfbbc2cba64011b4de8799ea37") @@
  ("aA-2025-10-28" :> "3e7a88016854706e771f52ba86a75342931e417d")) @@
  (("a -2025-10-28" :> "fd48078c369f27c04713a39a7f065d92422cf0f5") @@
  (("Aa-2025-10-28" :> "fac95a8fda075096e561514514c3cb5d5cb99fdb") @@
  ("AA-2025-10-28" :> "8e2d246b0353840d5e8dd52bbf445dbd86e88834")))) @@
  ((("A -2025-10-28" :> "fbd37d33794ad11da0f12e878bd03ed7c8ec2306") @@
  ((" a-2025-10-28" :> "8ef11fe3fd3c5e35f1b0901f00d29f18a40315b4") @@
  (" A-2025-10-28" :> "15ed659698d87893e56ea74d73bb5dff026e4662"))) @@
  (("  -2025-10-28" :> "9a18806a9b230fb710242836ca4f61e6898d2181") @@
  (("aaa-2025-10-28" :> "adb034ef78a55d6c23ff4da1df7f4a56c961389f") @@
  ("aaA-2025-10-28" :> "9b939c6541be2687deb613951965db447760a3e7"))))) @@
  (((("aa -2025-10-28" :> "ddf99ea04f33f8ab34cfcca461d0739f6fd2371d") @@
  (("aAa-2025-10-28" :> "c7d83c7632cf63172c15a8c35f0bc8793e6d6f23") @@
  ("aAA-2025-10-28" :> "72a5afdd43798b8beba28bcd8cb55e5ba25a77e8"))) @@
  (("aA -2025-10-28" :> "3488ef69dd8f41c8cd1b8c9e227312d5b2cbe447") @@
  (("a a-2025-10-28" :> "6e76c7383d66bf4f3336470e6a904414eeedd5c4") @@
  ("a A-2025-10-28" :> "c5f4228d5ac5ff89754dc631f377f15d86a8b47f")))) @@
  ((("a  -2025-10-28" :> "32f17a202393bf6bc658db2dd1182fab5ab7a6d2") @@
  (("Aaa-2025-10-28" :> "61c34d1ce763a8f4b6a269c75908e717455917ae") @@
  ("AaA-2025-10-28" :> "b3405dab5d413d858921cded9a3a279597ff46a8"))) @@
  (("Aa -2025-10-28" :> "14caa0ebfd9bdda057649091284ac35df1dc2ed3") @@
  (("AAa-2025-10-28" :> "ad5f9297f5df06e99649f67cb31cf80171319039") @@
  ("AAA-2025-10-28" :> "e627d4be9c2d7e215f9430ed9cc545174c01b3c8")))))) @@
  ((((("AA -2025-10-28" :> "e1c77b09e2c2563acaf279a034f2b6a4aad3efc5") @@
  ("A a-2025-10-28" :> "ba471f6c4ed77b727867273d1471e040a8eb877e")) @@
  (("A A-2025-10-28" :> "aede9a04719e5aa9b75bcdf8f33614ec5930e014") @@
  (("A  -2025-10-28" :> "c9c10d0ff67d514a930f566cb5cddfe353e9ec17") @@
  (" aa-2025-10-28" :> "442e82e18817e88f1ec64a1c0a4192a5f7bca284")))) @@
  (((" aA-2025-10-28" :> "fa0d56126cd2e4159da142763897b0c07c02fc1c") @@
  ((" a -2025-10-28" :> "d9064a44c243626d4b8e99a590574e94b4a78477") @@
  (" Aa-2025-10-28" :> "a3ea002586a7e2b0246752ef1b1cbcbe680b3281"))) @@
  ((" AA-2025-10-28" :> "fad2d77324a7f879ea6eec9e396e06495ad8d941") @@
  ((" A -2025-10-28" :> "7e1d8512565b22dcf277cd07db21265dfb48da34") @@
  ("  a-2025-10-28" :> "224193935602c298e34f7753d89ebc198b3853b7"))))) @@
  (((("  A-2025-10-28" :> "8972b3170267eede9062d4c868cff4fc0b56a244") @@
  (("   -2025-10-28" :> "3dddafe6dea4a8abcdf5a71eb0b8000db5ac9102") @@
  ("aaaa-2025-10-28" :> "0cd4050b8c7286a9807248147f332183cb520616"))) @@
  (("aaaA-2025-10-28" :> "970d57f5078b14e89b68c4f49edcdad7ad34ce0d") @@
  (("aaa -2025-10-28" :> "dfff858d3ce5c17fe45d1b55b45393a4f336ff76") @@
  ("aaAa-2025-10-28" :> "3ae101f14ac1c185bbbd1018009a3d18ccd0df37")))) @@
  ((("aaAA-2025-10-28" :> "2719a64ec15562f30ae709c861b5fcb5e5267072") @@
  (("aaA -2025-10-28" :> "3c0d355869d5cfa4ba7f40179c9baf21aaea9d60") @@
  ("aa a-2025-10-28" :> "a631a04fca3da1630dad4cf94d77fbd210a1a195"))) @@
  (("aa A-2025-10-28" :> "618d410d15924f379b36280b8af4f852ae0ab4b6") @@
  (("aa  -2025-10-28" :> "065a38016202f8464cfd73fa678079e928f18e65") @@
  ("aAaa-2025-10-28" :> "17c2d86437b614afaf468eec66e7082f420be61a"))))))) @@
  (((((("aAaA-2025-10-28" :> "6beb07fd8509f2942e491e8d97544c7b73b9245c") @@
  ("aAa -2025-10-28" :> "1ec58e4a59b7bf980f4c974df8f8fd9eb2c4f013")) @@
  (("aAAa-2025-10-28" :> "916c72f5b0e2d0f16e0d45b95a70e14f09fc8ecd") @@
  (("aAAA-2025-10-28" :> "4f5822bbb46bbe669a0f8b13140c06125be2c40f") @@
  ("aAA -2025-10-28" :> "bb2744be17cc8a9273e424a9a53ba33806da0879")))) @@
  ((("aA a-2025-10-28" :> "085021ac40813cc4ea3c3662999085de6f7e55c3") @@
  (("aA A-2025-10-28" :> "2c19dd066257daf238e37231afbfa4261b46f682") @@
  ("aA  -2025-10-28" :> "7656c2ad918e1e3689c3b78005ca6645fc194f70"))) @@
  (("a aa-2025-10-28" :> "d16c011d303fd96555df371025ef4c725a1004df") @@
  (("a aA-2025-10-28" :> "a666a5e199cdf2feb5e61684102b532ae11f98ef") @@
  ("a a -2025-10-28" :> "010b8d16771220dca4d5a77bae8d767d646570f9"))))) @@
  (((("a Aa-2025-10-28" :> "87a70850a8632ddc27dbdca1ea4d9ccb442b1118") @@
  (("a AA-2025-10-28" :> "d0e736eb90eb6129b9c8187b843bcf7adbfd3b09") @@
  ("a A -2025-10-28" :> "6859283e1b00fb47b6992df41a69878355fda2d6"))) @@
  (("a  a-2025-10-28" :> "e3155554cb914fd7be98ec1bbe052bdf6e5e371a") @@
  (("a  A-2025-10-28" :> "51aa5a0f1b7d3bc179177aff8365d592bfab6654") @@
  ("a   -2025-10-28" :> "b1dda0b2689e1fa6c63037b1f1de711277a23c42")))) @@
  ((("Aaaa-2025-10-28" :> "b955f91036e3a66c577bc78c8c07b9cdfbfae53e") @@
  (("AaaA-2025-10-28" :> "7c33c2225ebc1bd8fa7eefbea15c204880af3b54") @@
  ("Aaa -2025-10-28" :> "449de5dcffa899611e05a5b31833becacb9a33fb"))) @@
  (("AaAa-2025-10-28" :> "7cff142b1d9565b7a74d9a4087c816ee67d10076") @@
  (("AaAA-2025-10-28" :> "8ec2307fd8c6dbf5f9c9b1f202f7c6fc2d41f4c8") @@
  ("AaA -2025-10-28" :> "f78200cd3bd66d913ed438de4278791ca1d1fe6e")))))) @@
  ((((("Aa a-2025-10-28" :> "4a67083b3559f71e180bea14f204749ab93ee9e0") @@
  (("Aa A-2025-10-28" :> "ed6a96c970d96942342b895f70428aff991246ff") @@
  ("Aa  -2025-10-28" :> "42023490a9020eca255701c24758d5c8f787713b"))) @@
  (("AAaa-2025-10-28" :> "298ac06256029d16b23ad141d0bb89a798c3257a") @@
  (("AAaA-2025-10-28" :> "ff3d8be55480f14fbb3792dabf4ea4491731a825") @@
  ("AAa -2025-10-28" :> "b91261d6b16e14183b509321601f8b49e1e3dded")))) @@
  ((("AAAa-2025-10-28" :> "65ef9a3262db09c2bff534cbdebcfbf1042abdd5") @@
  (("AAAA-2025-10-28" :> "f56c54adcec552e6999eb78a0a988d9708cd3ee7") @@
  ("AAA -2025-10-28" :> "042631dcf09d395ee34c53d575f9a09f00c0d08c"))) @@
  (("AA a-2025-10-28" :> "f7df74ca52d05501bb4a6b4c56b5fda125ebd807") @@
  (("AA A-2025-10-28" :> "6fa07b1a673475093aef69b251202b07202e3f46") @@
  ("AA  -2025-10-28" :> "ec1a313ef23ddeb9f3bcbc8863c8c8aba4e0ca2c"))))) @@
  (((("A aa-2025-10-28" :> "5dc6dc4fcff21ef25f48a0b5f90d03b520c67d6d") @@
  (("A aA-2025-10-28" :> "c7a719c7661081982f3a1f868dd1c1fc05cbee34") @@
  ("A a -2025-10-28" :> "67e0c2a53f47074cf5071edaac6b47b3cc837f14"))) @@
  (("A Aa-2025-10-28" :> "23536be3c64fe3ca5ce57043efbd4a45818a9f6a") @@
  (("A AA-2025-10-28" :> "ab4745ed96434af66f333d1b72c2b2c96d81c047") @@
  ("A A -2025-10-28" :> "43f13eeef7f5d5bd4719602d42367c6ee869d093")))) @@
  ((("A  a-2025-10-28" :> "21e80ebdac2252336c557b9ae3f20aa150c23774") @@
  (("A  A-2025-10-28" :> "466fad3f52843a9b9dd7680d799b4d93b271f2af") @@
  ("A   -2025-10-28" :> "4b015fb915b3d1568072f1d4400bb1177f7e3954"))) @@
  ((" aaa-2025-10-28" :> "4f888976cc144e863739116b688b6f8a50038daa") @@
  ((" aaA-2025-10-28" :> "3b9bfb217912b50f77c1f72014abe9c886c0aea9") @@
  (" aa -2025-10-28" :> "5ba5ec0afeaec39b696b38d70fd28cfd7f523880")))))))) @@
  (((((((" aAa-2025-10-28" :> "2bccac5b959e45ddf2a15ee07374a24ca1b90aa0") @@
  (" aAA-2025-10-28" :> "8f55c6e85b72f24a2c74de7a988e58f637216d91")) @@
  ((" aA -2025-10-28" :> "e19f52245f82c520f8087df8a666fa228ef1f7f5") @@
  ((" a a-2025-10-28" :> "4cebec650e5b0d092dedc3418af54b58a81bfc44") @@
  (" a A-2025-10-28" :> "75e425c230f29bd428ae778863c7b78bfc376521")))) @@
  (((" a  -2025-10-28" :> "79a3d26c003e3057306bc1b8ea74d9ada11ccd7d") @@
  ((" Aaa-2025-10-28" :> "4c0ecbc3a37551203761e1bc0699c23213c553f0") @@
  (" AaA-2025-10-28" :> "0a6c5d5559123b7535ceace1b1f64669f24e7429"))) @@
  ((" Aa -2025-10-28" :> "80a029662475a385e92e9a16b1e5ad729c0bf180") @@
  ((" AAa-2025-10-28" :> "6cd9b7bece6e3ccd1b9b803c238cab1403696f9d") @@
  (" AAA-2025-10-28" :> "36763daf53bae5914e15bc449df1ebc83b88890d"))))) @@
  ((((" AA -2025-10-28" :> "ac206ac8fc242a459950d6921516c768876a2387") @@
  ((" A a-2025-10-28" :> "558e7e3e83f1e082e7ce3ac5ea7e174cf3069ced") @@
  (" A A-2025-10-28" :> "9b029fd61b03b1fa7f99e6ca8e5d55e4b52077e9"))) @@
  ((" A  -2025-10-28" :> "d3ca62679abc81ad9c2d5ab9ac5bd614810048cc") @@
  (("  aa-2025-10-28" :> "7ccfb9c04b368b8ce8cfe82ab75687ad85b90002") @@
  ("  aA-2025-10-28" :> "c0f06f118a3904f5496201497a34dfdd6d23ce76")))) @@
  ((("  a -2025-10-28" :> "0375a6add63220fd9f99e4ad95fea8d7bdebf9c1") @@
  (("  Aa-2025-10-28" :> "aada8086a471a7e41be32e67d61b978a332c27b1") @@
  ("  AA-2025-10-28" :> "24bf7b8d1c1b8cc67b2d13da66668b82e9f75695"))) @@
  (("  A -2025-10-28" :> "ad67b1a023f0a5014291907c23c68b31871ac4f2") @@
  (("   a-2025-10-28" :> "61eb9eebf7b44459931bb0be4a1a5b0bdadf1b82") @@
  ("   A-2025-10-28" :> "d6af5d6427590ced98cf4917cc41811d38f315ae")))))) @@
  ((((("    -2025-10-28" :> "7d19833fff8901386fac13f1a300c7ef8e237bf2") @@
  (("aaaaa-2025-10-28" :> "cff3f765280268102ee08314f989bf5e2d312b15") @@
  ("aaaaA-2025-10-28" :> "e5ed363ae3e7aa2cea20b230f7f59a26d8cab727"))) @@
  (("aaaa -2025-10-28" :> "15d8f69ab023c1e73800c50365a608f05e3c03fd") @@
  (("aaaAa-2025-10-28" :> "4e917cfc7bca3471f3c00f6fbdb87e74437ce84e") @@
  ("aaaAA-2025-10-28" :> "fb7a647af039303e0d38c7f38fef4092af3cd838")))) @@
  ((("aaaA -2025-10-28" :> "71bd4d820eb575426802a4d3c525bd8ea4940eaf") @@
  (("aaa a-2025-10-28" :> "c670107c0f342ce728d9a012fe2322860235e958") @@
  ("aaa A-2025-10-28" :> "7dd5a615b7e13814170896c5e91c2201a48cb8c2"))) @@
  (("aaa  -2025-10-28" :> "1fccaa76a15e976995589394926858185b7d6836") @@
  (("aaAaa-2025-10-28" :> "99317eb04220a3298196103eb4310c0ba2a4f482") @@
  ("aaAaA-2025-10-28" :> "a9e341e378c2183252d86b3e7477a9faa21cb658"))))) @@
  (((("aaAa -2025-10-28" :> "ff9b6958ccd123f3ecd19e5d91a09fa459ca16b6") @@
  (("aaAAa-2025-10-28" :> "a403a42df54800b7afa91c6d703681e70ff4de40") @@
  ("aaAAA-2025-10-28" :> "7173151a0ee79c38841201eaceef0847fa597ac7"))) @@
  (("aaAA -2025-10-28" :> "700d9397836b5131882f286b53239a8d451ab5f3") @@
  (("aaA a-2025-10-28" :> "030e2b6fac69932847d81ad5019f32d252109b81") @@
  ("aaA A-2025-10-28" :> "f60a0779b344347b9cb779b241376b0b761b3323")))) @@
  ((("aaA  -2025-10-28" :> "9c1611918a52055586c34e6d6767964738a7ee64") @@
  (("aa aa-2025-10-28" :> "c490197ffcfd3b70d96619e96b3c0188c2da25a2") @@
  ("aa aA-2025-10-28" :> "8da8b71530866ba6757d4332384406d4c6238780"))) @@
  (("aa a -2025-10-28" :> "0ddf560a5c920c4c7bcd674fe054dd9a9decbcd3") @@
  (("aa Aa-2025-10-28" :> "eb9406a5512068131f86462295c073b507b67405") @@
  ("aa AA-2025-10-28" :> "0c932fd332bac57324bc3c013455e4438f745162"))))))) @@
  (((((("aa A -2025-10-28" :> "599bf8e77d398386763a86dff91753b430ccd3f1") @@
  ("aa  a-2025-10-28" :> "0f290c930f37c890ad6ca23418422c7e899b4601")) @@
  (("aa  A-2025-10-28" :> "c4a5118b0416dcf1c8205446bbbdb59b2e5362c6") @@
  (("aa   -2025-10-28" :> "431e71940cf5dc8656b0c5df8e93e70c497fbc86") @@
  ("aAaaa-2025-10-28" :> "5b7c35eae00bacfaf4506922a41be032a4cceae7")))) @@
  ((("aAaaA-2025-10-28" :> "e14da4598822c3b37b7ec4ff827a7d1ac2b48e84") @@
  (("aAaa -2025-10-28" :> "6474a0fb6f10efa7f25ea8571676ae1bed4ef777") @@
  ("aAaAa-2025-10-28" :> "bf39e2c27fce797a8ac22a9875b310709d0979f1"))) @@
  (("aAaAA-2025-10-28" :> "02a8970f8361daeb8e9f259b3aca2ebe6245c0ef") @@
  (("aAaA -2025-10-28" :> "4bfddf444d4cf08b4f02ea26cf9e48cd58a5ba67") @@
  ("aAa a-2025-10-28" :> "739f83b350c0d1ba8191e0e6812232cda45b8c9f"))))) @@
  (((("aAa A-2025-10-28" :> "8e3e1e66f28ddbb4b1d2260111a48219e95d99cd") @@
  (("aAa  -2025-10-28" :> "ae60f0aa861e397d192adc8e2c1eaee22e064c27") @@
  ("aAAaa-2025-10-28" :> "577fe8592c1a96637e9456ba170b53da614828f6"))) @@
  (("aAAaA-2025-10-28" :> "e01a5c667c170a81d4ae24a6eba23fa4a93c832b") @@
  (("aAAa -2025-10-28" :> "7ae03f5cefa9178d208516064c087171dd2a6b2f") @@
  ("aAAAa-2025-10-28" :> "1d4a7616ecde4b31d18b7f83214665f6f234e158")))) @@
  ((("aAAAA-2025-10-28" :> "35ba76423d92d575bcc95a6f5cdcd2abe97533f5") @@
  (("aAAA -2025-10-28" :> "b4271b4960dd3851e2510ffeea3ecf4c7348bb94") @@
  ("aAA a-2025-10-28" :> "cf2a8da40420119fcf58d38e872d3f582c31b32b"))) @@
  (("aAA A-2025-10-28" :> "1d50b3a7b91a370c9d657b1cd8e2a4cc2660aa36") @@
  (("aAA  -2025-10-28" :> "6d2eceb3535d6f60a80334c5e391a09799891920") @@
  ("aA aa-2025-10-28" :> "6a7c9e1cead67270df115a6fe75c01484b916f06")))))) @@
  ((((("aA aA-2025-10-28" :> "116b1906cc4526b5f728b978123d4a4da6b38429") @@
  (("aA a -2025-10-28" :> "e0c2aa99b39406ee92b6309573df82d1624c9b6b") @@
  ("aA Aa-2025-10-28" :> "3fefb65f0429dd330e116aa43ef1f054d999bcf8"))) @@
  (("aA AA-2025-10-28" :> "208c54feb9cb2e34b5fb56358eb5d379984ad1a6") @@
  (("aA A -2025-10-28" :> "d7c1ab6929ac3690ef940ddde221b9dd3178367a") @@
  ("aA  a-2025-10-28" :> "c3d8af9c75dd2ff1fb5ea37898739763443c2582")))) @@
  ((("aA  A-2025-10-28" :> "15442f3b48e59037eda51d9ffef52d3e4ad289a8") @@
  (("aA   -2025-10-28" :> "cebb047598caa2c007ca9b3a6ccc63ebd3a7eb43") @@
  ("a aaa-2025-10-28" :> "51958f16aae8390760b042c065765de9603f1240"))) @@
  (("a aaA-2025-10-28" :> "d703355260ecd0439b29ea274c547ef74029e79a") @@
  (("a aa -2025-10-28" :> "86c9d88d893c78ea9a55f48e72c90bfa1140d334") @@
  ("a aAa-2025-10-28" :> "fafeea7629bef7cf4444f313a89e91dd6a1b65d5"))))) @@
  (((("a aAA-2025-10-28" :> "4a6a126b948001fc6f109f5e6ee27979e66d387f") @@
  (("a aA -2025-10-28" :> "66924e5e2dfc4be60ecf3ebdd6a4b8ebd5c55f69") @@
  ("a a a-2025-10-28" :> "0790077d03f6a5f0e2616b7580297bb555408811"))) @@
  (("a a A-2025-10-28" :> "b5dd1e3b4a00cfc625b099b3516a0b4d9870d242") @@
  (("a a  -2025-10-28" :> "fe1167047643d7108e835f28b746abc8c1cbddb4") @@
  ("a Aaa-2025-10-28" :> "e619f16a331125b8f56b59a6f759de76598ccc6c")))) @@
  ((("a AaA-2025-10-28" :> "466cb0716f54c52926a6ddaaf7b03fa685ae14fa") @@
  (("a Aa -2025-10-28" :> "bbe41b2ee7bf730e57f14812c40c22a3985d0e5b") @@
  ("a AAa-2025-10-28" :> "0b7ed3b53255fa99bb5af1ef229bb9b8002202b6"))) @@
  (("a AAA-2025-10-28" :> "6d1e915d9612af745d327968f59ef8c71920cfa3") @@
  (("a AA -2025-10-28" :> "fbc4ab8a0ae9df819a7b658fdac8975b25efee59") @@
  ("a A a-2025-10-28" :> "f848516082d248b777b72ec5f121542a98599cbc"))))))))) @@
  (((((((("a A A-2025-10-28" :> "80e01be4e063bdbc089b9826f3a029096f7b2245") @@
  ("a A  -2025-10-28" :> "2c1194f84bcc2768d4f386104384239fa19f7917")) @@
  (("a  aa-2025-10-28" :> "7905ac26ba437dc0e5bb2cd30d46c1b9f8a6a151") @@
  (("a  aA-2025-10-28" :> "a073abd159f7f5f69ccb7569eaf0675acae68859") @@
  ("a  a -2025-10-28" :> "5fae674a7e81579cb7e9b0cb6e80b982aa146e25")))) @@
  ((("a  Aa-2025-10-28" :> "85e87dc0e188061e4469b17372fc8ad9aa47f051") @@
  (("a  AA-2025-10-28" :> "00ae4095a30c810f85bb2d7c7a35c90e78b34616") @@
  ("a  A -2025-10-28" :> "30f6b1da93e462933ddcbfb04abf1be4a37f76e0"))) @@
  (("a   a-2025-10-28" :> "40c1e4243eb84b27114f86c3af1f5d3bf42ab43e") @@
  (("a   A-2025-10-28" :> "99755f043f46a1f90fe4de5420af32a968c86142") @@
  ("a    -2025-10-28" :> "7a30a96b5e440b0e5c773f0d45e315bc81321e00"))))) @@
  (((("Aaaaa-2025-10-28" :> "f8bf03fb11e2994737bbef92698c5cc252689d9c") @@
  (("AaaaA-2025-10-28" :> "0904a4b224ec8d373e5b342df0f0bc146d589118") @@
  ("Aaaa -2025-10-28" :> "e20194c9ebc99f4c4ca964dd3bb86f63a1bbecf8"))) @@
  (("AaaAa-2025-10-28" :> "7bd5f2c0b103409f6dc0b3fdb3925d19e408ebda") @@
  (("AaaAA-2025-10-28" :> "55797558348e3fec2ef8142730a4ff713b37e442") @@
  ("AaaA -2025-10-28" :> "6fb2d075e18e9c2f357b447ce594eab1cafbfab7")))) @@
  ((("Aaa a-2025-10-28" :> "1956eb6ddb92e9deb4d27fac479ad5ea3055f963") @@
  (("Aaa A-2025-10-28" :> "ebcdb05b1e7cf4e60f1a0f2a1f2cb536bc74cfe6") @@
  ("Aaa  -2025-10-28" :> "c6a3da0aa484bdd8ebbe6b951ddbcfddfd180d30"))) @@
  (("AaAaa-2025-10-28" :> "e152bdf11f3f8ddedad0e92eb110fc890de9b538") @@
  (("AaAaA-2025-10-28" :> "b79e7629a1f9f6a3dcf7b4afdb92f03b4e051ae9") @@
  ("AaAa -2025-10-28" :> "248d9c924b7f504bd1e40dabb697bf3b7177eca3")))))) @@
  ((((("AaAAa-2025-10-28" :> "625fd00a29f144bd94e2dcdac29f20aec93fb13b") @@
  ("AaAAA-2025-10-28" :> "fa579b4807970e7cfb15b56945788cb8f5b5731e")) @@
  (("AaAA -2025-10-28" :> "01e6e3a8d2300f7d65cf7e25531dc06e61681a13") @@
  (("AaA a-2025-10-28" :> "3dfa0f537cf3ff37a3de191ef28a8c35fb58ab4e") @@
  ("AaA A-2025-10-28" :> "7c3ed95a08f060ec20ba318dc7af7f7c0bbd144e")))) @@
  ((("AaA  -2025-10-28" :> "6ffbb42559cad3cfd397f5a9f75257014628a195") @@
  (("Aa aa-2025-10-28" :> "446dbd101a732ce1a52295f0f75e13aca57b1e81") @@
  ("Aa aA-2025-10-28" :> "84ab491d209c9b25532d40ece0ae7a8d9e7b3351"))) @@
  (("Aa a -2025-10-28" :> "a1f87b003a309116ec2372a08c537180ff81e894") @@
  (("Aa Aa-2025-10-28" :> "925ef329ce4a1f98c4c4e9474070cd897aa7b42b") @@
  ("Aa AA-2025-10-28" :> "9df29795a346b2021eb18d764ab0b2228d2f0fb5"))))) @@
  (((("Aa A -2025-10-28" :> "7eb0dd47592cf89444f79dee3d21e2ca428e97f7") @@
  (("Aa  a-2025-10-28" :> "0858896e06fca63ba176bbd5edd276ee7eddcc32") @@
  ("Aa  A-2025-10-28" :> "b1c53a2e04a524f6a571ee8e722762501ae17c4f"))) @@
  (("Aa   -2025-10-28" :> "6f2ebb0173d2085024ac58c971a3e32977470fb8") @@
  (("AAaaa-2025-10-28" :> "7f9a679610599839dc0df936c7318bed42431253") @@
  ("AAaaA-2025-10-28" :> "bad850f747056fc04d8e8117cc6e92013ff14394")))) @@
  ((("AAaa -2025-10-28" :> "7875f978b0417141386904f75693c08b4d4b5ab7") @@
  (("AAaAa-2025-10-28" :> "693abbd7b63a95009f281b1aa4bd8727d9b3485b") @@
  ("AAaAA-2025-10-28" :> "56742508672fb6b3a5d4a6fb136bb3319c6699c3"))) @@
  (("AAaA -2025-10-28" :> "509ab2aa872ef93124b89b5419a167e57b92972a") @@
  (("AAa a-2025-10-28" :> "2264fa58771ade2c2bcb6c5e714859f6c8e43dc7") @@
  ("AAa A-2025-10-28" :> "87e631e828470f198c63e12c5ff49648f83614c8"))))))) @@
  (((((("AAa  -2025-10-28" :> "8885fa109b1d7ebfe9f5211b6780fe3043adf617") @@
  ("AAAaa-2025-10-28" :> "a3f9b307e547f795e1685810f881796f78bfa798")) @@
  (("AAAaA-2025-10-28" :> "4a882049ee0c14c31d41957d1ae03e56834472ba") @@
  (("AAAa -2025-10-28" :> "5e746ba883904f58ab1278df907e50e6d6f66379") @@
  ("AAAAa-2025-10-28" :> "14188124e1278f7a6a2f83355fffcc04ab86c3f6")))) @@
  ((("AAAAA-2025-10-28" :> "b62e47964a5f0d3c36ea722b114da121377bd340") @@
  (("AAAA -2025-10-28" :> "a21855bd756bc5d86fe16ec34745353292c21c02") @@
  ("AAA a-2025-10-28" :> "d6dd22942dd18dd962e72ccd5ddea02eb56daa0f"))) @@
  (("AAA A-2025-10-28" :> "279d2117346c8a4b06a629e9915b635c7539571a") @@
  (("AAA  -2025-10-28" :> "20d0b6fe09da93dfa45b77c481f6ac5912d1a684") @@
  ("AA aa-2025-10-28" :> "f6ffdc018bd7e9ad992290ac6540a5354ff8e750"))))) @@
  (((("AA aA-2025-10-28" :> "d3c9d85b6aa6edd36f702cf2ad9c3e5ddc6b5836") @@
  (("AA a -2025-10-28" :> "c6e1ffadb93028202828a617b3f266cf51592951") @@
  ("AA Aa-2025-10-28" :> "92ea35ad750098c039ce40621fabb12eab83ad0a"))) @@
  (("AA AA-2025-10-28" :> "51ff0b7cc6bdd696e850910799b4b45b39ab1e85") @@
  (("AA A -2025-10-28" :> "1eba5994f39f7566ac81728747b42ecb5ce5fbb9") @@
  ("AA  a-2025-10-28" :> "204495dee264c36d7bfc0c63c59f78c9583c06e0")))) @@
  ((("AA  A-2025-10-28" :> "8b4be87255366330fc0b97ac3061e94ab2c23dd3") @@
  (("AA   -2025-10-28" :> "d92c6b226fb85034e77eb3ff34b74621f911ce8b") @@
  ("A aaa-2025-10-28" :> "60994231c13bb788d0b98c6806b44280b534585f"))) @@
  (("A aaA-2025-10-28" :> "98984b805dc4e332a4ae32697c8748a8ed1909d4") @@
  (("A aa -2025-10-28" :> "8eb3420e2ffc65c8e6ef75843619d440f8d06b1f") @@
  ("A aAa-2025-10-28" :> "ea40cc5c654bdaaa52c67e2a7a758b9a3204996a")))))) @@
  ((((("A aAA-2025-10-28" :> "dcde8f170b894f5fa5af2140fd27c90c375a1fc0") @@
  (("A aA -2025-10-28" :> "a4954832b5c7ff7db45311bf2529285ca1e9b26e") @@
  ("A a a-2025-10-28" :> "1fd6c6758afd2904d936f2c38289bf2a9e4d9819"))) @@
  (("A a A-2025-10-28" :> "d88671d6a9bc3b84e61d80bac6e630bf354ebea0") @@
  (("A a  -2025-10-28" :> "32bbaf833f25c7e4ec980364c7b91da55f9f095a") @@
  ("A Aaa-2025-10-28" :> "9824d2dd616548d91aedc40f125a87966a5d2d3a")))) @@
  ((("A AaA-2025-10-28" :> "d1fdc261948f05ad4bf5e02968c97825000075f7") @@
  (("A Aa -2025-10-28" :> "9ac382199ac11c9e5ed50fe5a857e24b290b2338") @@
  ("A AAa-2025-10-28" :> "52ecadc01b6912a230f3e4e0219705ee07a7156e"))) @@
  (("A AAA-2025-10-28" :> "1304786391f91aaf1f4a07771d68d7f2b56000a6") @@
  (("A AA -2025-10-28" :> "bddcbf289e793e4dea8f7392c0412ded45fdedec") @@
  ("A A a-2025-10-28" :> "9e670cb940f8b62bcbf8f2e73f326dd5ee8ec0b3"))))) @@
  (((("A A A-2025-10-28" :> "d0b684d12ac84e54d10c49485a52aee5e45b80b1") @@
  (("A A  -2025-10-28" :> "57b204a3fc3a09fc5d4997ce6a446a8aacd4a69c") @@
  ("A  aa-2025-10-28" :> "59828f54cc80e260b83c62879cc98f844988e075"))) @@
  (("A  aA-2025-10-28" :> "f01fa0d9b9e136e5ef8931459de73e5f1dfb3bfd") @@
  (("A  a -2025-10-28" :> "f50a70161eabb47652fbdb460e9e850f41bcabcf") @@
  ("A  Aa-2025-10-28" :> "10b2f1091f5f8ebdf46b2e319a32c3f6c4ea05a5")))) @@
  ((("A  AA-2025-10-28" :> "412794ab52953d61927615838b951164efa477e2") @@
  (("A  A -2025-10-28" :> "7c7f975a482c1a2b9c3efa219596a77241c1f5ea") @@
  ("A   a-2025-10-28" :> "71f2d6debf0654190c331f2825f0b15851bce41a"))) @@
  (("A   A-2025-10-28" :> "c5a8c293d0ba988384bcc21cb9bc8aebde96ba26") @@
  (("A    -2025-10-28" :> "9eea6d6dc8b9401daad61bdba31f16298b8c942b") @@
  (" aaaa-2025-10-28" :> "c81655341f244a07bbb81dd92558fa7e9952199c")))))))) @@
  (((((((" aaaA-2025-10-28" :> "90a494885d4bef0e6f8cd0424099bc919cda614e") @@
  (" aaa -2025-10-28" :> "0e3b6de251bc536004045fd4edaf634442ccdaf1")) @@
  ((" aaAa-2025-10-28" :> "1246024531ca3011a05b301ce75ad45b5be9b334") @@
  ((" aaAA-2025-10-28" :> "62c72757ce38b2aeb5b64b3044c07bbceb1435b8") @@
  (" aaA -2025-10-28" :> "6f580c1f76ab6e644c3daed4f26d69ac8f6206a3")))) @@
  (((" aa a-2025-10-28" :> "a911748f2fb50c71a7c43eae297b79e8ee618029") @@
  ((" aa A-2025-10-28" :> "dd3418d2b03c99148d4832a8cfcfa99b0fe4f05a") @@
  (" aa  -2025-10-28" :> "359ebe7bea9523a7b5a65c08afe47dd21846725e"))) @@
  ((" aAaa-2025-10-28" :> "3510c4d84e0df5cadecea4f5abcae25effca20b5") @@
  ((" aAaA-2025-10-28" :> "6ecdc7788552bbcb922c6c405d925f7947b065ea") @@
  (" aAa -2025-10-28" :> "6e06d0d862e0596b9530c7f1e4f0874e7ba6209b"))))) @@
  ((((" aAAa-2025-10-28" :> "5e336590bcc39a3dc09f8bea71deb47f7a7d254f") @@
  ((" aAAA-2025-10-28" :> "278c903e05753e988d65f8f946f659d26c529736") @@
  (" aAA -2025-10-28" :> "7eb843d05c9e7a3a7114b92716cc05cb765287f0"))) @@
  ((" aA a-2025-10-28" :> "6d66dc6aef9fd3daa2489c60a5312c027f451749") @@
  ((" aA A-2025-10-28" :> "c91fec228ef7b71724baea02af740080b4709e7d") @@
  (" aA  -2025-10-28" :> "f060d0b3ff62242836c64ca8aff7da6236985ba0")))) @@
  (((" a aa-2025-10-28" :> "4a383a174a30a99d90998f6fea6fe9ea838ea32a") @@
  ((" a aA-2025-10-28" :> "91ab95f201c41eae94f4367764ad823b5fb38965") @@
  (" a a -2025-10-28" :> "b850d2cd8261e0e2e722a34c099a69d0725d7ac1"))) @@
  ((" a Aa-2025-10-28" :> "e8a3bd2b3bd74e9fddf08686dd29c26b9b713223") @@
  ((" a AA-2025-10-28" :> "e34b0abffd612c8f497f65edde51e5d11dc211ec") @@
  (" a A -2025-10-28" :> "9051e9b58429c6e2c3466cf3a023aedb42dec05a")))))) @@
  (((((" a  a-2025-10-28" :> "b9abfdbfd767cb179b9f61e41d833e381483bed6") @@
  ((" a  A-2025-10-28" :> "d40fdc468f6ca93bda5e1051b1ae4e2a0f61b47a") @@
  (" a   -2025-10-28" :> "957c69809d4271f4932ef1aff8475f7a251e5458"))) @@
  ((" Aaaa-2025-10-28" :> "50c1b953d4ec6f8145478073aa32c67086e9a443") @@
  ((" AaaA-2025-10-28" :> "3921a81213c269f98ff7e206ca26f1777172759c") @@
  (" Aaa -2025-10-28" :> "2b42fb9a51c65af461ffc35350c3db1f7356d1ac")))) @@
  (((" AaAa-2025-10-28" :> "ec891369e5fe41c984b51dd3d8c01f24d5d2cc28") @@
  ((" AaAA-2025-10-28" :> "00aad16b188584a065ad362d9a67b9f6298884da") @@
  (" AaA -2025-10-28" :> "74eb29d76c722744139ae39bb37d79bb8c475097"))) @@
  ((" Aa a-2025-10-28" :> "fbc39af0990ef7fe5bd73a0799248a7b6aed1e25") @@
  ((" Aa A-2025-10-28" :> "611fca207eb730cd44a6ec1f435286e428390823") @@
  (" Aa  -2025-10-28" :> "9f9296ad0a797f773d9214daeee9651b7cb029fe"))))) @@
  ((((" AAaa-2025-10-28" :> "244f830b4ad51a4a6985fed3b704be1bccb7ed5d") @@
  ((" AAaA-2025-10-28" :> "5246d50b3970fcae25f8a87f1fdbb39814193d43") @@
  (" AAa -2025-10-28" :> "81855c8057079aa725973744c3ae3091595263cd"))) @@
  ((" AAAa-2025-10-28" :> "ab06bc501284cf1c8d74b33212ff5ac00154a36d") @@
  ((" AAAA-2025-10-28" :> "98bb794363af441db91f0d2601785ff1d76a4e46") @@
  (" AAA -2025-10-28" :> "57d76b85fab8482aa1b7a1b9acb33ef98e3827d4")))) @@
  (((" AA a-2025-10-28" :> "a57b3ca9dbcc9b8824d63001bdcc0a8b43b2c546") @@
  ((" AA A-2025-10-28" :> "7df095107b7cd1fad37a17b350da41c5c6f2ffd2") @@
  (" AA  -2025-10-28" :> "ce919ce7b1d7881a60d0433a84de224f1cdac7e1"))) @@
  ((" A aa-2025-10-28" :> "1112c14fac21af9334fdbd40116abeb3e06a570c") @@
  ((" A aA-2025-10-28" :> "ece2e62a1dc6f951b852b96d265ca380e78472b3") @@
  (" A a -2025-10-28" :> "70d19bc6d47927105d1d65d40a70ae246ed257a0"))))))) @@
  ((((((" A Aa-2025-10-28" :> "a8ed764b82f4b5722eaf8952242319834fbcac10") @@
  (" A AA-2025-10-28" :> "c64fe12b4e2642c7d838f21205326eca0f8f1a97")) @@
  ((" A A -2025-10-28" :> "a6300abd1d937a90ae9442ebfb85f589618e556f") @@
  ((" A  a-2025-10-28" :> "5985ad9761010b48c6b6d271e3818532060381e3") @@
  (" A  A-2025-10-28" :> "e65eee92c9b71399cdaafaee74509e47559d6d03")))) @@
  (((" A   -2025-10-28" :> "b3c13d2e1ea213265444a7de751675ad2b4bbbe4") @@
  (("  aaa-2025-10-28" :> "db761ac8899a4efc00c8a7a3541dd74f4718ce33") @@
  ("  aaA-2025-10-28" :> "f8f7aaecb01dfc448d462633dadf9e4624307823"))) @@
  (("  aa -2025-10-28" :> "8345efb8a67774e967e5109e9fa66248b7e80dd5") @@
  (("  aAa-2025-10-28" :> "c46a5ce2264acc4462178fc790877d6d099cbbf1") @@
  ("  aAA-2025-10-28" :> "d07bbd2d3955b08e6681c97c513108542639fa9c"))))) @@
  (((("  aA -2025-10-28" :> "3523f7a5dc6d8de1fef22b516fdef6c25fb8c15a") @@
  (("  a a-2025-10-28" :> "37eb877159633e22e1f20f0284aa6add729c37de") @@
  ("  a A-2025-10-28" :> "a56a1ffbfeb1aabb2de77c96b4d6fcb207288849"))) @@
  (("  a  -2025-10-28" :> "3a999e315fa4bd96ce269051407e6509059ce02d") @@
  (("  Aaa-2025-10-28" :> "e44c786858534ec91e8e37ce53a005270117d658") @@
  ("  AaA-2025-10-28" :> "92a1e9210d2540da793b40be344ac236b127bdae")))) @@
  ((("  Aa -2025-10-28" :> "1e68a7d4d42b7875c981e1a634bfb82df359d80f") @@
  (("  AAa-2025-10-28" :> "8efef3bef5b385c66cf986d682a9363d656f4da6") @@
  ("  AAA-2025-10-28" :> "5f2522c51a2260f4376fefcec833e7641fb481d5"))) @@
  (("  AA -2025-10-28" :> "3efcdfff1df312ab0cabfda763130b0f68d4cc3c") @@
  (("  A a-2025-10-28" :> "c0c1b778659632b157ecfc57d8d442c24df68c4a") @@
  ("  A A-2025-10-28" :> "099270ec06b48b7931f54ac9cf1152d8a6e73b26")))))) @@
  ((((("  A  -2025-10-28" :> "6a6d1ce19e824594bc88a55a4bece8acdfb5f96e") @@
  (("   aa-2025-10-28" :> "9dbb7d8c357103c42ed01d7a48eec4d317584c5d") @@
  ("   aA-2025-10-28" :> "f64aab56af4cc35a6cd905d1567a5a0cfb6dcf10"))) @@
  (("   a -2025-10-28" :> "d7c3de5e1820f28e25946bf17f134ca65fc560b8") @@
  (("   Aa-2025-10-28" :> "b2b24d72342052cee34452f47ef206538f9a61a3") @@
  ("   AA-2025-10-28" :> "3b41dfa56581d81c6e3d8826e5cdbae0d3d762a8")))) @@
  ((("   A -2025-10-28" :> "f95aaaf840cb6b33b71bede37356dc0c21f0479c") @@
  (("    a-2025-10-28" :> "8004516882a043e30ba80c9f5a3e6280a454dea7") @@
  ("    A-2025-10-28" :> "13d0d450b1aafc7bc2d3ff544a072d6225217eba"))) @@
  (("     -2025-10-28" :> "03406286b8d9693ee3d2f4d96329792117a58959") @@
  (("Untitled Policy-2025-10-28" :> "212d8f533b1a293cbee2357ddd58abc85200bbca") @@
  ("untitled policy-2025-10-28" :> "810e67234606c402f086f1ec21b3659ac48f124d"))))) @@
  (((("a-2025-10-28" :> "141ce1ba1584f71c7ddf02da4c9aadceccf8ca37") @@
  (("A-2025-10-28" :> "91e54b7e7f2dd9b7515dcdd1080a85c10d35d774") @@
  ("a-2025-10-28" :> "02f33620338adde883f92e25d779c8b567b6f63c"))) @@
  (("-2025-10-28" :> "ae130778ba49a73bba873ee1369b8d8dd1650637") @@
  (("a-27.10.2025" :> "0af328c7b28a8da9a25aab9716d1e08acd840014") @@
  ("A-27.10.2025" :> "74085c1efed7df0d461c020f7f02d2f0e7571c4d")))) @@
  ((("A -27.10.2025" :> "677411af1f1d3ac21367960d528574ea0a02e072") @@
  (("aa-27.10.2025" :> "a048cdb2f696eaa71412cbdd016aaaee0a01a5c3") @@
  (" a-27.10.2025" :> "1891ba86a509f2f38fd8be040ab8b778744c23ef"))) @@
  (("a -27.10.2025" :> "69f336806259fafa699584d0cf32f37244e64de0") @@
  (("Untitled Policy-27.10.2025" :> "9dba2584ac0718a60b45976fc94012ec0ee5011f") @@
  ("untitled policy-27.10.2025" :> "0b87c54b81903daddfaf3167c5581fc592376d87")))))))))))

sha1_hexdigest(key_string) == SHA1_HEXDIGEST[key_string]

\* get_unique_document_id with the title used as it comes: no strip, no lower
get_unique_document_id_raw(title, date_str) ==
  date_str \o "-" \o SubSeq(sha1_hexdigest(title \o "-" \o date_str), 1, 10)

\* get_unique_document_id with the title lower-cased and not trimmed
get_unique_document_id_no_strip(title, date_str) ==
  date_str \o "-" \o SubSeq(sha1_hexdigest(lower(title) \o "-" \o date_str), 1, 10)

\* get_unique_document_id that keys and prefixes every id with one date
get_unique_document_id_one_date(title, date_str) ==
  "2025-10-27" \o "-"
    \o SubSeq(sha1_hexdigest(lower(strip(title)) \o "-" \o "2025-10-27"), 1, 10)

\* get_unique_document_id, lines 45-54
get_unique_document_id(title, date_str) ==
  LET key_string == lower(strip(title)) \o "-" \o date_str
      hash_value == sha1_hexdigest(key_string)
  IN  date_str \o "-" \o SubSeq(hash_value, 1, 10)

---------------------------------------------------------------------------
(* The identifier checks: two calls of get_unique_document_id on arguments *)
(* drawn from the titles over TITLE_ALPHABET and the dates of ID_DATES.    *)

TITLE_ALPHABET == {"a", "A", " "}

RECURSIVE StringsUpTo(_, _)
\* Every string over alphabet of at most n characters
StringsUpTo(alphabet, n) ==
  IF n = 0 THEN {""}
  ELSE LET shorter == StringsUpTo(alphabet, n - 1)
       IN  shorter \cup {s \o c : s \in shorter, c \in alphabet}

\* Titles with the whitespace characters 0x0b, 0x1f and 0x1c 0x1d 0x1e
CONTROL_TITLES == {"a", "A", ""}

ID_TITLES == StringsUpTo(TITLE_ALPHABET, MaxTitleLen) \cup CONTROL_TITLES

ID_DATES == {"2025-10-27", "2025-10-28"}

IdArgs == [title : ID_TITLES, date_str : ID_DATES]

NotCalled == [called |-> FALSE, id |-> ""]

\* One call of get_unique_document_id(title, date_str)
CallId(i) ==
  /\ i \in DOMAIN id_in
  /\ ~id_out[i].called
  /\ id_out' = [id_out EXCEPT ![i] =
                  [called |-> TRUE,
                   id |-> get_unique_document_id(id_in[i].title, id_in[i].date_str)]]
  /\ UNCHANGED <<db, pc, snapshot, policy_list, batch, ret, request, collection, commits, id_in>>

---------------------------------------------------------------------------
(* Python dicts.  An item is a record; the snapshot and its buckets, whose *)
(* iteration order the flattening follows, are sequences of <<key, value>> *)
(* pairs in insertion order, with no key twice.                            *)

\* dict.get(key, default)
dict_get(d, key, default) == IF key \in DOMAIN d THEN d[key] ELSE default

HasKey(pairs, key) == \E i \in 1..Len(pairs) : pairs[i][1] = key

IndexOfKey(pairs, key) == CHOOSE i \in 1..Len(pairs) : pairs[i][1] = key

\* sources.setdefault(source_name, []).append(item)
AddToSources(sources, source_name, item) ==
  IF HasKey(sources, source_name)
  THEN LET i == IndexOfKey(sources, source_name)
       IN  [sources EXCEPT ![i] = <<source_name, Append(sources[i][2], item)>>]
  ELSE Append(sources, <<source_name, <<item>> >>)

\* snapshot.setdefault(source_type, {}).setdefault(source_name, []).append(item)
AddToSnapshot(snap, source_type, source_name, item) ==
  IF HasKey(snap, source_type)
  THEN LET i == IndexOfKey(snap, source_type)
       IN  [snap EXCEPT ![i] = <<source_type, AddToSources(snap[i][2], source_name, item)>>]
  ELSE Append(snap, <<source_type, << <<source_name, <<item>> >> >> >>)

RECURSIVE NestedSnapshot(_)
\* The snapshot {source_type: {source_name: [items]}} that harvesting the
\* placements <<source_type, source_name, item>> in this order builds
NestedSnapshot(placements) ==
  IF placements = <<>> THEN <<>>
  ELSE LET n == Len(placements)
           p == placements[n]
       IN  AddToSnapshot(NestedSnapshot(SubSeq(placements, 1, n - 1)), p[1], p[2], p[3])

\* Every snapshot of at most n items drawn from these keys, names and items
SnapshotsUpTo(n, source_types, source_names, items) ==
  { NestedSnapshot(pl) :
      pl \in UNION { [1..k -> source_types \X source_names \X items] : k \in 0..n } }

\* Every snapshot of at most MaxItems items drawn from these keys, names and items
Snapshots(source_types, source_names, items) ==
  SnapshotsUpTo(MaxItems, source_types, source_names, items)

---------------------------------------------------------------------------
(* The clock.  datetime.utcnow() returns one of these readings; a later    *)
(* call never returns an earlier one.  Each item reads it twice: line 84   *)
(* (the default of item.get('date', ...), evaluated whether or not the     *)
(* item has a date) and line 87.                                           *)

UTCNOW ==
  << [date |-> "2025-10-27", time |-> "23:59:58.500000"],
     [date |-> "2025-10-28", time |-> "00:00:02.250000"] >>

\* datetime.strftime("%Y-%m-%d")
strftime_ymd(now) == now.date

\* datetime.isoformat()
isoformat(now) == now.date \o "T" \o now.time

\* The readings n successive calls of utcnow() may return
Readings(n) ==
  { ts \in [1..n -> 1..Len(UTCNOW)] : \A i, j \in 1..n : i <= j => ts[i] <= ts[j] }

---------------------------------------------------------------------------
(* transform_and_publish_policies, lines 56-106.                           *)

Runs == {1, 2}

\* Grouping keys that take in the "archive" bucket too
FLATTENED_KEYS_with_archive == {"central", "states", "uts", "archive"}

\* Line 68: the grouping keys that are flattened
FLATTENED_KEYS == {"central", "states", "uts"}

\* Line 81: source_type.capitalize().replace('s', '')
source_type_label(source_type) == replace_char(capitalize(source_type), "s", "")

\* A document whose missing url, summary and category are left empty
document_empty_defaults(source_type, source_name, item, now_84, now_87) ==
  [ title            |-> dict_get(item, "title", "Untitled Policy"),
    url              |-> dict_get(item, "url", ""),
    summary          |-> dict_get(item, "summary", ""),
    source           |-> dict_get(item, "source", source_name),
    category         |-> dict_get(item, "category", ""),
    source_type      |-> replace_char(capitalize(source_type), "s", ""),
    publication_date |-> dict_get(item, "date", strftime_ymd(now_84)),
    published_at     |-> isoformat(now_87) ]

\* Lines 73-88: the Firestore document of one item
document(source_type, source_name, item, now_84, now_87) ==
  [ title            |-> dict_get(item, "title", "Untitled Policy"),
    url              |-> dict_get(item, "url", "#"),
    summary          |-> dict_get(item, "summary", "No summary available."),
    source           |-> dict_get(item, "source", source_name),
    category         |-> dict_get(item, "category", "General"),
    source_type      |-> source_type_label(source_type),
    publication_date |-> dict_get(item, "date", strftime_ymd(now_84)),
    published_at     |-> isoformat(now_87) ]

\* Lines 70-71: the items of one bucket, source by source
RECURSIVE bucket_entries(_, _)
bucket_entries(source_type, sources) ==
  IF sources = <<>> THEN <<>>
  ELSE LET source_name == sources[1][1]
           items       == sources[1][2]
       IN  [i \in 1..Len(items) |-> <<source_type, source_name, items[i]>>]
           \o bucket_entries(source_type, SubSeq(sources, 2, Len(sources)))

\* Lines 67-71: the items of the snapshot in iteration order, those of the
\* flattened keys only
RECURSIVE snapshot_entries(_)
snapshot_entries(policies_snapshot) ==
  IF policies_snapshot = <<>> THEN <<>>
  ELSE LET source_type == policies_snapshot[1][1]
           sources     == policies_snapshot[1][2]
           rest        == snapshot_entries(SubSeq(policies_snapshot, 2, Len(policies_snapshot)))
       IN  IF source_type \in FLATTENED_KEYS
           THEN bucket_entries(source_type, sources) \o rest
           ELSE rest

\* Lines 64-89: policy_list; item i takes readings 2i-1 (line 84) and 2i
\* (line 87) of the clock
flatten(policies_snapshot, ts) ==
  LET entries == snapshot_entries(policies_snapshot)
  IN  [i \in 1..Len(entries) |->
         document(entries[i][1], entries[i][2], entries[i][3],
                  UTCNOW[ts[2 * i - 1]], UTCNOW[ts[2 * i]])]

\* Lines 97-103: the writes queued on the batch, in order
batch_writes(policies) ==
  [i \in 1..Len(policies) |->
     <<get_unique_document_id(policies[i].title, policies[i].publication_date), policies[i]>>]

\* A set() that creates a document and leaves an existing one as it is
doc_set_create_only(coll, doc_id, data) ==
  [k \in DOMAIN coll \cup {doc_id} |-> IF k \in DOMAIN coll THEN coll[k] ELSE data]

\* A set() that overwrites an existing document but keeps its published_at
doc_set_keep_published_at(coll, doc_id, data) ==
  [k \in DOMAIN coll \cup {doc_id} |->
     IF k # doc_id THEN coll[k]
     ELSE IF k \in DOMAIN coll
          THEN [data EXCEPT !.published_at = coll[k].published_at]
          ELSE data]

\* DocumentReference.set(): create the document or overwrite it as a whole
doc_set(coll, doc_id, data) ==
  [k \in DOMAIN coll \cup {doc_id} |-> IF k = doc_id THEN data ELSE coll[k]]

RECURSIVE apply_writes(_, _)
\* The writes of a batch applied in the order they were queued
apply_writes(coll, writes) ==
  IF writes = <<>> THEN coll
  ELSE apply_writes(doc_set(coll, writes[1][1], writes[1][2]), SubSeq(writes, 2, Len(writes)))

\* A commit that applies the first write of the batch and loses the rest
batch_commit_first_only(coll, writes) ==
  IF writes = <<>> THEN coll ELSE doc_set(coll, writes[1][1], writes[1][2])

\* A commit that replaces the whole collection by the batch
batch_commit_replace_collection(coll, writes) == apply_writes(<<>>, writes)

\* Line 105: what the destination does with the batch of a commit request:
\* every write is applied, at once
batch_commit(coll, writes) == apply_writes(coll, writes)

\* A handle check that never reports a missing handle
no_handle_never(r) == FALSE

\* Line 60 and line 115: "if not db"
no_handle(r) == db[r] = "None"

\* Lines 60-105: a call of transform_and_publish_policies, on a snapshot of
\* the given set, up to the call of commit(): the documents are flattened,
\* the clock read twice per item, their writes queued and the commit
\* request sent.  Without a handle it returns 0 (lines 60-62).
Transform(r, snapshots) ==
  /\ pc[r] = "idle"
  /\ \E policies_snapshot \in snapshots :
       /\ snapshot' = [snapshot EXCEPT ![r] = policies_snapshot]
       /\ IF no_handle(r)
          THEN /\ pc' = [pc EXCEPT ![r] = "returned"]
               /\ ret' = [ret EXCEPT ![r] = <<0>>]
               /\ UNCHANGED <<policy_list, batch, request>>
          ELSE /\ \E ts \in Readings(2 * Len(snapshot_entries(policies_snapshot))) :
                    policy_list' = [policy_list EXCEPT ![r] = flatten(policies_snapshot, ts)]
               /\ batch' = [batch EXCEPT ![r] = batch_writes(policy_list'[r])]
               /\ request' = [request EXCEPT ![r] = "pending"]
               /\ pc' = [pc EXCEPT ![r] = "committing"]
               /\ UNCHANGED ret
  /\ UNCHANGED <<db, collection, commits, id_in, id_out>>

\* Line 105, at the destination: the batch of a pending commit request is
\* applied.  The run is still waiting inside commit(), or its commit() has
\* raised already (the deadline passed with the request under way); other
\* runs take their steps before and after
DestinationApplies(r) ==
  /\ request[r] = "pending"
  /\ collection' = batch_commit(collection, batch[r])
  /\ commits' = Append(commits,
                  [run        |-> r,
                   overlapped |-> {q \in Runs \ {r} : request[q] = "pending"},
                   before     |-> collection,
                   after      |-> collection'])
  /\ request' = [request EXCEPT ![r] = "applied"]
  /\ UNCHANGED <<db, pc, snapshot, policy_list, batch, ret, id_in, id_out>>

\* A return of commit() after which the run may call commit() again
Commit_and_retry(r) ==
  /\ pc[r] = "committing"
  /\ request[r] = "applied"
  /\ \/ /\ pc' = [pc EXCEPT ![r] = "returned"]
        /\ ret' = [ret EXCEPT ![r] = <<Len(policy_list[r])>>]
        /\ UNCHANGED request
     \/ /\ request' = [request EXCEPT ![r] = "pending"]
        /\ UNCHANGED <<pc, ret>>
  /\ UNCHANGED <<db, snapshot, policy_list, batch, collection, commits, id_in, id_out>>

\* Lines 105-106: the destination has applied the batch and its reply
\* arrives: commit() returns and the call returns len(policy_list)
Commit(r) ==
  /\ pc[r] = "committing"
  /\ request[r] = "applied"
  /\ pc' = [pc EXCEPT ![r] = "returned"]
  /\ ret' = [ret EXCEPT ![r] = <<Len(policy_list[r])>>]
  /\ UNCHANGED <<db, snapshot, policy_list, batch, request, collection, commits,
                 id_in, id_out>>

\* Line 105: commit() raises and the exception ends the run.  The request
\* is still pending (the destination is unreachable, refuses it, or applies
\* it later) or the batch was applied and the reply was lost
CommitFails(r) ==
  /\ pc[r] = "committing"
  /\ pc' = [pc EXCEPT ![r] = "raised"]
  /\ UNCHANGED <<db, snapshot, policy_list, batch, ret, request, collection, commits,
                 id_in, id_out>>

\* Lines 115-117: run_daily_policy_scraper without a handle skips publishing
ScraperSkips(r) ==
  /\ pc[r] = "idle"
  /\ no_handle(r)
  /\ pc' = [pc EXCEPT ![r] = "skipped"]
  /\ UNCHANGED <<db, snapshot, policy_list, batch, ret, request, collection, commits,
                 id_in, id_out>>

\* A report that is also printed after commit() has raised
ScraperReports_after_raise(r) ==
  /\ pc[r] \in {"returned", "raised"}
  /\ ~no_handle(r)
  /\ pc' = [pc EXCEPT ![r] = "complete"]
  /\ UNCHANGED <<db, snapshot, policy_list, batch, ret, request, collection, commits,
                 id_in, id_out>>

\* Lines 148-152: with a handle (lines 114-117 did not return) and after
\* transform_and_publish_policies has returned, run_daily_policy_scraper
\* prints "--- DAILY PUBLISHING COMPLETE ---" and the returned count
ScraperReports(r) ==
  /\ pc[r] = "returned"
  /\ ~no_handle(r)
  /\ pc' = [pc EXCEPT ![r] = "complete"]
  /\ UNCHANGED <<db, snapshot, policy_list, batch, ret, request, collection, commits,
                 id_in, id_out>>

---------------------------------------------------------------------------
(* Inputs.                                                                 *)

ITEM_FULL ==
  [ date |-> "2025-10-27", title |-> "a", url |-> "https://example.com/a",
    source |-> "CERC Orders", category |-> "Regulation", summary |-> "Summary of a" ]

ITEM_SAME_ID == [ date |-> "2025-10-27", title |-> " A" ]

ITEM_OTHER ==
  [ date |-> "2025-10-27", title |-> "aa", url |-> "https://example.com/aa",
    category |-> "Policy" ]

ITEM_NO_DATE == [ title |-> "A ", summary |-> "Undated" ]

ITEM_BAD_DATE == [ date |-> "27.10.2025", title |-> "a" ]

ITEM_NO_TITLE == [ date |-> "2025-10-27", url |-> "https://example.com/u" ]

\* The snapshots two overlapping runs publish: each of the three items at
\* most once
RUN_SNAPSHOTS ==
  { s \in Snapshots({"central"}, {"CERC"}, {ITEM_FULL, ITEM_OTHER, ITEM_NO_DATE}) :
      \A i, j \in 1..Len(snapshot_entries(s)) :
        i # j => snapshot_entries(s)[i][3] # snapshot_entries(s)[j][3] }

\* The snapshots a single run publishes: those of one source with every
\* kind of item under every key, and those of two sources with one item
\* under several keys, where a bucket holds several sources and iteration
\* order differs from the order the items were harvested in
FLAT_SNAPSHOTS ==
  Snapshots({"central", "states", "uts", "archive"}, {"CERC"},
            {ITEM_FULL, ITEM_SAME_ID, ITEM_OTHER, ITEM_NO_DATE, ITEM_BAD_DATE, ITEM_NO_TITLE})
    \cup SnapshotsUpTo(MaxNestedItems, {"central", "uts", "archive"}, {"CERC", "MNRE"},
                       {ITEM_OTHER})

---------------------------------------------------------------------------
(* Specifications.                                                         *)

\* Lines 28-38: each process has imported the module; its handle is the
\* Firestore client, or None when the initialisation failed
InitRuns ==
  /\ db \in [Runs -> {"client", "None"}]
  /\ pc = [r \in Runs |-> "idle"]
  /\ snapshot = [r \in Runs |-> <<>>]
  /\ policy_list = [r \in Runs |-> <<>>]
  /\ batch = [r \in Runs |-> <<>>]
  /\ ret = [r \in Runs |-> <<>>]
  /\ request = [r \in Runs |-> "none"]
  /\ collection = <<>>
  /\ commits = <<>>

Init ==
  /\ InitRuns
  /\ id_in = <<>>
  /\ id_out = <<>>

\* Two processes, each one run of the script, overlapping in any way
Next ==
  \E r \in Runs :
    \/ Transform(r, RUN_SNAPSHOTS)
    \/ DestinationApplies(r)
    \/ Commit(r)
    \/ CommitFails(r)
    \/ ScraperSkips(r)
    \/ ScraperReports(r)

Spec == Init /\ [][Next]_vars

\* One process, one run, on any snapshot of FLAT_SNAPSHOTS
NextFlat ==
  \/ Transform(1, FLAT_SNAPSHOTS)
  \/ DestinationApplies(1)
  \/ Commit(1)
  \/ CommitFails(1)
  \/ ScraperSkips(1)
  \/ ScraperReports(1)

InitFlat ==
  /\ Init
  /\ db[2] = "client"

SpecFlat == InitFlat /\ [][NextFlat]_vars

\* The identifier function alone, called twice
InitId ==
  /\ db = [r \in Runs |-> "client"]
  /\ pc = [r \in Runs |-> "idle"]
  /\ snapshot = [r \in Runs |-> <<>>]
  /\ policy_list = [r \in Runs |-> <<>>]
  /\ batch = [r \in Runs |-> <<>>]
  /\ ret = [r \in Runs |-> <<>>]
  /\ request = [r \in Runs |-> "none"]
  /\ collection = <<>>
  /\ commits = <<>>
  /\ id_in \in [1..2 -> IdArgs]
  /\ id_out = [i \in 1..2 |-> NotCalled]

NextId == \E i \in 1..2 : CallId(i)

SpecId == InitId /\ [][NextId]_vars

---------------------------------------------------------------------------
(* Properties.                                                             *)

\* The ids a batch of writes names
BatchIds(writes) == {writes[i][1] : i \in 1..Len(writes)}

\* The document a batch queues last for an id
LastQueued(writes, doc_id) ==
  LET last == CHOOSE i \in 1..Len(writes) :
                /\ writes[i][1] = doc_id
                /\ \A j \in 1..Len(writes) : writes[j][1] = doc_id => j <= i
  IN  writes[last][2]

\* Two documents that differ in published_at at most
SameButPublishedAt(d1, d2) ==
  [d1 EXCEPT !.published_at = ""] = [d2 EXCEPT !.published_at = ""]

\* The runs whose batch the destination has applied
Committed == {commits[k].run : k \in 1..Len(commits)}

\* C1: once a snapshot has been committed, committing the same snapshot
\* again leaves the number of documents and the set of their ids unchanged,
\* and the documents written again differ from the previous versions in
\* published_at at most.
C1_IdempotentPublish ==
  \A k \in 2..Len(commits) :
    LET first == commits[k - 1]
        again == commits[k]
    IN  snapshot[first.run] = snapshot[again.run] =>
          /\ Cardinality(DOMAIN again.after) = Cardinality(DOMAIN again.before)
          /\ DOMAIN again.after = DOMAIN again.before
          /\ \A doc_id \in DOMAIN again.after :
               SameButPublishedAt(again.before[doc_id], again.after[doc_id])

\* The commits of a run that the destination applied
CommitsOf(r) == {k \in 1..Len(commits) : commits[k].run = r}

\* The runs whose commit() has returned
Returned == {r \in Runs : db[r] = "client" /\ pc[r] \in {"returned", "complete"}}

\* The document a run queued last for an id is the one the collection holds
Visible(r, doc_id) ==
  /\ doc_id \in DOMAIN collection
  /\ collection[doc_id] = LastQueued(batch[r], doc_id)

\* C2 as stated: in every state, of every run that has attempted its commit
\* either all documents of the batch are visible or none is, and a run
\* whose commit raised has left the collection as it was.
C2_AllOrNoneInEveryState ==
  \A r \in Runs :
    pc[r] \in {"returned", "raised", "complete"} =>
      /\ \/ \A doc_id \in BatchIds(batch[r]) : Visible(r, doc_id)
         \/ \A doc_id \in BatchIds(batch[r]) : ~Visible(r, doc_id)
      /\ pc[r] = "raised" =>
           \A k \in CommitsOf(r) : commits[k].after = commits[k].before

\* C2, amended: the collection changes by whole batches only.  It is what
\* the last applied batch left; each batch was applied to what the one
\* before it left; right after it was applied every id of the batch holds
\* the document the batch queued last for it; the batch of a run is applied
\* at most once, and before commit() returns, so a run whose commit raised
\* has its batch applied either not at all or as a whole, once, before or
\* after the raise.
C2_AtomicBatchPublish ==
  /\ collection = IF commits = <<>> THEN <<>> ELSE commits[Len(commits)].after
  /\ \A k \in 1..Len(commits) :
       /\ commits[k].before = IF k = 1 THEN <<>> ELSE commits[k - 1].after
       /\ DOMAIN commits[k].after = DOMAIN commits[k].before \cup BatchIds(batch[commits[k].run])
       /\ \A doc_id \in BatchIds(batch[commits[k].run]) :
            commits[k].after[doc_id] = LastQueued(batch[commits[k].run], doc_id)
  /\ \A r \in Runs :
       /\ Cardinality(CommitsOf(r)) <= 1
       /\ r \in Returned => CommitsOf(r) # {}
       /\ CommitsOf(r) # {} => pc[r] \in {"committing", "raised", "returned", "complete"}

\* C2 witness: the commit of a run of two documents with different ids has
\* returned; the other run's commit has raised and its batch was applied
\* after the first, as a whole, replacing one of the two documents by a
\* different one: the first batch is no longer wholly visible.
C2_Witness ==
  \E k, l \in 1..Len(commits) :
    /\ k < l
    /\ commits[k].run \in Returned
    /\ Cardinality(BatchIds(batch[commits[k].run])) = 2
    /\ pc[commits[l].run] = "raised"
    /\ \A doc_id \in BatchIds(batch[commits[l].run]) : Visible(commits[l].run, doc_id)
    /\ \E id1, id2 \in BatchIds(batch[commits[k].run]) :
         /\ ~Visible(commits[k].run, id1)
         /\ Visible(commits[k].run, id2)

\* C3: when the batch of a run was applied while the commit of another
\* run, of a batch that shares ids with it, was pending, the other batch
\* can still be applied and its commit() can return once it is (no conflict
\* is signalled), and when both are applied, every id they share holds the
\* document of the batch applied last.
C3_LastCommitWins ==
  /\ \A k \in 1..Len(commits) : \A r \in commits[k].overlapped :
       ( /\ pc[r] = "committing"
         /\ BatchIds(batch[r]) \cap BatchIds(batch[commits[k].run]) # {} )
       => IF request[r] = "pending"
          THEN ENABLED DestinationApplies(r)
          ELSE ENABLED Commit(r)
  /\ \A k, l \in 1..Len(commits) :
       k < l /\ commits[l].run \in commits[k].overlapped =>
         \A doc_id \in BatchIds(batch[commits[k].run]) \cap BatchIds(batch[commits[l].run]) :
           collection[doc_id] = LastQueued(batch[commits[l].run], doc_id)

\* C3 witness: two overlapping runs have both committed, they share an id,
\* and their documents for it differ in more than published_at.
C3_Witness ==
  /\ Len(commits) = 2
  /\ commits[2].run \in commits[1].overlapped
  /\ \E doc_id \in BatchIds(batch[commits[1].run]) \cap BatchIds(batch[commits[2].run]) :
       ~SameButPublishedAt(LastQueued(batch[commits[1].run], doc_id),
                           LastQueued(batch[commits[2].run], doc_id))

\* C4: no two documents of the collection have the same trimmed, lower-cased
\* title and the same publication_date, and every document is stored under
\* get_unique_document_id(its title, its publication_date).
C4_OnePerLogicalItem ==
  /\ \A id1, id2 \in DOMAIN collection :
       ( /\ lower(strip(collection[id1].title)) = lower(strip(collection[id2].title))
         /\ collection[id1].publication_date = collection[id2].publication_date )
       => id1 = id2
  /\ \A doc_id \in DOMAIN collection :
       doc_id = collection[doc_id].publication_date \o "-"
                  \o SubSeq(SHA1_HEXDIGEST[lower(strip(collection[doc_id].title)) \o "-"
                                           \o collection[doc_id].publication_date], 1, 10)

\* C4 witness: both runs have committed, and between them they published
\* two items whose titles differ and normalise to the same title, on the
\* same date; the collection holds one document for them.
C4_Witness ==
  /\ Len(commits) = 2
  /\ \E r, q \in Runs, i \in 1..MaxItems, j \in 1..MaxItems :
       /\ i \in DOMAIN policy_list[r] /\ j \in DOMAIN policy_list[q]
       /\ policy_list[r][i].title # policy_list[q][j].title
       /\ lower(strip(policy_list[r][i].title)) = lower(strip(policy_list[q][j].title))
       /\ policy_list[r][i].publication_date = policy_list[q][j].publication_date
       /\ Cardinality({d \in DOMAIN collection :
            /\ lower(strip(collection[d].title)) = lower(strip(policy_list[r][i].title))
            /\ collection[d].publication_date = policy_list[r][i].publication_date}) = 1

\* C5: two calls of get_unique_document_id whose titles are equal once
\* trimmed and lower-cased and whose dates are equal return equal ids, in
\* whatever order the calls are made.
C5_IdDeterminism ==
  ( /\ id_out[1].called /\ id_out[2].called
    /\ lower(strip(id_in[1].title)) = lower(strip(id_in[2].title))
    /\ id_in[1].date_str = id_in[2].date_str )
  => id_out[1].id = id_out[2].id

\* C5 witness: both calls made, on different titles with the same
\* normalised title and the same date.
C5_Witness ==
  /\ id_out[1].called /\ id_out[2].called
  /\ id_in[1].title # id_in[2].title
  /\ lower(strip(id_in[1].title)) = lower(strip(id_in[2].title))
  /\ lower(strip(id_in[1].title)) # ""
  /\ id_in[1].date_str = id_in[2].date_str

\* Two characters that are the same letter in either case, or the same
\* character
SameCharUpToCase(c1, c2) ==
  \/ c1 = c2
  \/ c1 \in DOMAIN TO_LOWER /\ TO_LOWER[c1] = c2
  \/ c2 \in DOMAIN TO_LOWER /\ TO_LOWER[c2] = c1

\* Two strings that differ in letter case at most
SameUpToCase(s, t) ==
  /\ Len(s) = Len(t)
  /\ \A i \in 1..Len(s) : SameCharUpToCase(CharAt(s, i), CharAt(t, i))

\* The positions of a string that hold no whitespace
Inked(s) == {i \in 1..Len(s) : CharAt(s, i) \notin WHITESPACE}

\* A string from its first to its last character that is not whitespace
Core(s) ==
  IF Inked(s) = {} THEN ""
  ELSE SubSeq(s, CHOOSE i \in Inked(s) : \A j \in Inked(s) : i <= j,
                 CHOOSE i \in Inked(s) : \A j \in Inked(s) : j <= i)

\* C6: two calls of get_unique_document_id on the same date and on titles
\* that differ only in letter case or in leading and trailing whitespace
\* return the same id.
C6_CaseAndOuterWhitespace ==
  ( /\ id_out[1].called /\ id_out[2].called
    /\ id_in[1].date_str = id_in[2].date_str
    /\ SameUpToCase(Core(id_in[1].title), Core(id_in[2].title)) )
  => id_out[1].id = id_out[2].id

\* C6 witness: both calls made, on the same date, on titles of different
\* case and of different leading and trailing whitespace.
C6_Witness ==
  /\ id_out[1].called /\ id_out[2].called
  /\ id_in[1].date_str = id_in[2].date_str
  /\ SameUpToCase(Core(id_in[1].title), Core(id_in[2].title))
  /\ Core(id_in[1].title) # Core(id_in[2].title)
  /\ Len(id_in[1].title) # Len(id_in[2].title)
  /\ id_out[1].id = id_out[2].id

\* The length of the word a string starts with
WordLen(s) ==
  IF \E i \in 1..Len(s) : CharAt(s, i) \in WHITESPACE
  THEN (CHOOSE i \in 1..Len(s) :
          /\ CharAt(s, i) \in WHITESPACE
          /\ \A j \in 1..(i - 1) : CharAt(s, j) \notin WHITESPACE) - 1
  ELSE Len(s)

\* The length of the whitespace a string starts with
GapLen(s) ==
  IF \E i \in 1..Len(s) : CharAt(s, i) \notin WHITESPACE
  THEN (CHOOSE i \in 1..Len(s) :
          /\ CharAt(s, i) \notin WHITESPACE
          /\ \A j \in 1..(i - 1) : CharAt(s, j) \in WHITESPACE) - 1
  ELSE Len(s)

RECURSIVE Words(_)
\* The words of a string: its maximal runs of characters that are not whitespace
Words(s) ==
  IF s = "" THEN <<>>
  ELSE IF CharAt(s, 1) \in WHITESPACE THEN Words(SubSeq(s, GapLen(s) + 1, Len(s)))
  ELSE <<SubSeq(s, 1, WordLen(s))>> \o Words(SubSeq(s, WordLen(s) + 1, Len(s)))

RECURSIVE Gaps(_)
\* The whitespace of a string: its maximal runs of whitespace
Gaps(s) ==
  IF s = "" THEN <<>>
  ELSE IF CharAt(s, 1) \in WHITESPACE
  THEN <<SubSeq(s, 1, GapLen(s))>> \o Gaps(SubSeq(s, GapLen(s) + 1, Len(s)))
  ELSE Gaps(SubSeq(s, WordLen(s) + 1, Len(s)))

\* Two titles of the same words, up to letter case
SameWordsUpToCase(s, t) ==
  /\ Len(Words(s)) = Len(Words(t))
  /\ \A i \in 1..Len(Words(s)) : SameUpToCase(Words(s)[i], Words(t)[i])

\* C7 as stated: two calls on the same date and on titles that differ only
\* by whitespace, anywhere in the title, or by case return the same id.
C7_AnyWhitespace ==
  ( /\ id_out[1].called /\ id_out[2].called
    /\ id_in[1].date_str = id_in[2].date_str
    /\ SameWordsUpToCase(id_in[1].title, id_in[2].title) )
  => id_out[1].id = id_out[2].id

\* C7 amended: two calls on the same date and on titles of the same words up
\* to case, separated by the same whitespace between the words, return the
\* same id; the whitespace before the first and after the last word may
\* differ.
C7_SameInnerWhitespace ==
  ( /\ id_out[1].called /\ id_out[2].called
    /\ id_in[1].date_str = id_in[2].date_str
    /\ SameWordsUpToCase(id_in[1].title, id_in[2].title)
    /\ Gaps(Core(id_in[1].title)) = Gaps(Core(id_in[2].title)) )
  => id_out[1].id = id_out[2].id

\* C7 witness: both calls made on the same date, on two different titles of
\* the same two words, separated by the same whitespace.
C7_Witness ==
  /\ id_out[1].called /\ id_out[2].called
  /\ id_in[1].date_str = id_in[2].date_str
  /\ id_in[1].title # id_in[2].title
  /\ Len(Words(id_in[1].title)) = 2
  /\ SameWordsUpToCase(id_in[1].title, id_in[2].title)
  /\ Gaps(Core(id_in[1].title)) = Gaps(Core(id_in[2].title))
  /\ id_out[1].id = id_out[2].id

DIGIT_VALUE ==
  ("0" :> 0) @@ ("1" :> 1) @@ ("2" :> 2) @@ ("3" :> 3) @@ ("4" :> 4) @@
  ("5" :> 5) @@ ("6" :> 6) @@ ("7" :> 7) @@ ("8" :> 8) @@ ("9" :> 9)

RECURSIVE Number(_)
\* The number a string of digits writes
Number(s) ==
  IF s = "" THEN 0
  ELSE 10 * Number(SubSeq(s, 1, Len(s) - 1)) + DIGIT_VALUE[CharAt(s, Len(s))]

IsLeapYear(y) == (y % 4 = 0 /\ y % 100 # 0) \/ y % 400 = 0

DaysInMonth(y, m) ==
  IF m = 2 THEN (IF IsLeapYear(y) THEN 29 ELSE 28)
  ELSE IF m \in {4, 6, 9, 11} THEN 30 ELSE 31

\* A calendar date written YYYY-MM-DD
IsIsoDate(s) ==
  /\ Len(s) = 10
  /\ CharAt(s, 5) = "-" /\ CharAt(s, 8) = "-"
  /\ \A i \in {1, 2, 3, 4, 6, 7, 9, 10} : CharAt(s, i) \in DOMAIN DIGIT_VALUE
  /\ LET y == Number(SubSeq(s, 1, 4))
         m == Number(SubSeq(s, 6, 7))
         d == Number(SubSeq(s, 9, 10))
     IN  /\ y >= 1
         /\ m \in 1..12
         /\ d \in 1..DaysInMonth(y, m)

\* The item a document of a run's policy_list was made from
ItemOf(r, i) == snapshot_entries(snapshot[r])[i][3]

\* The grouping key a document of a run's policy_list was found under
KeyOf(r, i) == snapshot_entries(snapshot[r])[i][1]

\* C8: an item contributes a document only if it carries a valid calendar
\* date in YYYY-MM-DD form, so every document of the collection has a
\* publication_date that is a valid calendar date.
C8_PublicationDateValid ==
  /\ \A r \in Runs : \A i \in 1..Len(policy_list[r]) :
       /\ "date" \in DOMAIN ItemOf(r, i)
       /\ IsIsoDate(ItemOf(r, i).date)
  /\ \A doc_id \in DOMAIN collection : IsIsoDate(collection[doc_id].publication_date)

SOURCE_TYPE_OF_KEY ==
  ("central" :> "Central") @@ ("states" :> "State") @@ ("uts" :> "UnionTerritory")

\* C9: every document written carries one of the source types Central,
\* State and UnionTerritory: the one its grouping key, central, states or
\* uts, maps to.
C9_SourceTypeLabel ==
  /\ \A r \in Runs : \A i \in 1..Len(policy_list[r]) :
       policy_list[r][i].source_type = SOURCE_TYPE_OF_KEY[KeyOf(r, i)]
  /\ \A doc_id \in DOMAIN collection :
       collection[doc_id].source_type \in {"Central", "State", "UnionTerritory"}

\* C10: a process whose handle is None builds no batch, never reaches the
\* commit, has committed nothing, and its call of
\* transform_and_publish_policies returns 0; run_daily_policy_scraper
\* returns without calling it.
C10_NoHandleNoWrite ==
  \A r \in Runs :
    db[r] = "None" =>
      /\ policy_list[r] = <<>>
      /\ batch[r] = <<>>
      /\ pc[r] \in {"idle", "returned", "skipped"}
      /\ r \notin Committed
      /\ pc[r] = "returned" => ret[r] = <<0>>
      /\ pc[r] = "skipped" => ret[r] = <<>>

\* C10 witness: a process without a handle was called with a snapshot that
\* holds items and has returned, while the other process has published its
\* snapshot.
C10_Witness ==
  \E r, q \in Runs :
    /\ db[r] = "None" /\ pc[r] = "returned"
    /\ snapshot_entries(snapshot[r]) # <<>>
    /\ q \in Committed /\ collection # <<>>
    /\ DOMAIN collection = BatchIds(batch[q])

HEX_DIGITS == {"0", "1", "2", "3", "4", "5", "6", "7", "8", "9", "a", "b", "c", "d", "e", "f"}

\* An id made of the date, a "-" and ten hexadecimal digits
HasIdShape(id, date_str) ==
  /\ Len(id) = Len(date_str) + 11
  /\ SubSeq(id, 1, Len(date_str)) = date_str
  /\ CharAt(id, Len(date_str) + 1) = "-"
  /\ \A i \in (Len(date_str) + 2)..Len(id) : CharAt(id, i) \in HEX_DIGITS

\* C11: every id get_unique_document_id returns is the date, a "-" and ten
\* hexadecimal digits, and two calls on different dates return different
\* ids, whatever the titles.
C11_DateBoundsCollisions ==
  /\ \A i \in 1..2 : id_out[i].called => HasIdShape(id_out[i].id, id_in[i].date_str)
  /\ ( /\ id_out[1].called /\ id_out[2].called
       /\ id_in[1].date_str # id_in[2].date_str )
     => id_out[1].id # id_out[2].id

\* C11 witness: both calls made, on titles that normalise to the same title
\* and on different dates.
C11_Witness ==
  /\ id_out[1].called /\ id_out[2].called
  /\ lower(strip(id_in[1].title)) = lower(strip(id_in[2].title))
  /\ id_in[1].title # id_in[2].title
  /\ id_in[1].date_str # id_in[2].date_str
  /\ id_out[1].id # id_out[2].id

\* C12: after a commit, every id of the batch holds exactly the record this
\* batch queued for it, whether the id was absent before (created) or held
\* a previous version (replaced): the stored document has the fields of the
\* record and, in every field, the value of the record.
C12_CreateOrFullReplace ==
  \A k \in 1..Len(commits) :
    \A i \in 1..Len(batch[commits[k].run]) :
      LET doc_id == batch[commits[k].run][i][1]
          record == LastQueued(batch[commits[k].run], doc_id)
          stored == commits[k].after[doc_id]
      IN  /\ DOMAIN stored = DOMAIN record
          /\ \A f \in DOMAIN record : stored[f] = record[f]

\* C12 witness: one commit has replaced a document whose summary, url and
\* published_at all differ from the new record's, and has created another.
C12_Witness ==
  \E k \in 1..Len(commits) :
    \E id1, id2 \in BatchIds(batch[commits[k].run]) :
      /\ id1 \in DOMAIN commits[k].before
      /\ commits[k].before[id1].summary # commits[k].after[id1].summary
      /\ commits[k].before[id1].url # commits[k].after[id1].url
      /\ commits[k].before[id1].published_at # commits[k].after[id1].published_at
      /\ id2 \notin DOMAIN commits[k].before

OPTIONAL_FIELD_DEFAULT ==
  ("summary" :> "No summary available.") @@ ("url" :> "#") @@ ("category" :> "General")

\* C13: in the document made from an item, and in the write queued for it,
\* a summary, url or category the item lacks is 'No summary available.',
\* '#' or 'General', and one the item has is the item's value.
C13_OptionalFieldDefaults ==
  \A r \in Runs : \A i \in 1..Len(policy_list[r]) :
    \A f \in DOMAIN OPTIONAL_FIELD_DEFAULT :
      /\ policy_list[r][i][f] =
           IF f \in DOMAIN ItemOf(r, i) THEN ItemOf(r, i)[f] ELSE OPTIONAL_FIELD_DEFAULT[f]
      /\ batch[r][i][2][f] = policy_list[r][i][f]

\* C13 witness: a run has published a snapshot with an item that lacks all
\* three fields and an item that has all three.
C13_Witness ==
  \E r \in Committed : \E i, j \in 1..Len(policy_list[r]) :
    /\ DOMAIN OPTIONAL_FIELD_DEFAULT \cap DOMAIN ItemOf(r, i) = {}
    /\ DOMAIN OPTIONAL_FIELD_DEFAULT \subseteq DOMAIN ItemOf(r, j)
    /\ \E doc_id \in DOMAIN collection : collection[doc_id] = policy_list[r][i]
    /\ \E doc_id \in DOMAIN collection : collection[doc_id] = policy_list[r][j]

CANONICAL_FIELDS ==
  {"id", "title", "url", "summary", "source", "category",
   "sourceType", "publicationDate", "publishedAt"}

\* C14: every document of the collection has the nine canonical fields id,
\* title, url, summary, source, category, sourceType, publicationDate and
\* publishedAt, and its id field is the key it is stored under.
C14_CanonicalRecordShape ==
  \A doc_id \in DOMAIN collection :
    /\ CANONICAL_FIELDS \subseteq DOMAIN collection[doc_id]
    /\ collection[doc_id]["id"] = doc_id

\* C15: the value a run returns after its commit is the number of distinct
\* documents that commit created or replaced in the collection.
C15_ReturnedCountIsWritten ==
  \A k \in 1..Len(commits) :
    commits[k].run \in Returned =>
      ret[commits[k].run] = <<Cardinality(BatchIds(batch[commits[k].run]))>>

\* C16: a run that has reported completion has a handle, its batch was
\* applied and its commit() returned before; commit() returns only once
\* the batch is applied; the report is printed from the return of the
\* committed call only, and a run without a handle, a run whose commit
\* raised and a run that skipped never report completion.
C16_CompleteOnlyAfterAck ==
  /\ [](\A r \in Runs :
          pc[r] = "complete" =>
            /\ db[r] = "client"
            /\ CommitsOf(r) # {}
            /\ ret[r] = <<Len(policy_list[r])>>)
  /\ [][\A r \in Runs :
          /\ (pc'[r] = "complete" /\ pc[r] # "complete") =>
               (pc[r] = "returned" /\ CommitsOf(r) # {})
          /\ (pc'[r] = "returned" /\ pc[r] = "committing") =>
               (CommitsOf(r) # {} /\ commits' = commits /\ collection' = collection)
          /\ (db[r] = "None" \/ pc[r] \in {"raised", "skipped"}) =>
               pc'[r] # "complete"]_vars

\* C16 witness: one run has reported completion with its documents in the
\* collection, while the other run's commit of a batch has raised.
C16_Witness ==
  \E r, q \in Runs :
    /\ pc[r] = "complete"
    /\ batch[r] # <<>>
    /\ BatchIds(batch[r]) \subseteq DOMAIN collection
    /\ pc[q] = "raised" /\ batch[q] # <<>>

\* C17: a run sends one commit request, when it enters commit(), and the
\* destination applies its batch at most once; the attempt ends with
\* commit() returned or raised, neither of which writes; the run never
\* comes back to committing, and a run whose commit raised stays raised,
\* returns nothing and sends no further request.
C17_NoRetry ==
  /\ [](\A r \in Runs :
          /\ Cardinality(CommitsOf(r)) <= 1
          /\ pc[r] = "raised" => ret[r] = <<>>)
  /\ [][\A r \in Runs :
          /\ (request'[r] = "pending" /\ request[r] # "pending") =>
               (pc[r] = "idle" /\ pc'[r] = "committing")
          /\ (pc[r] = "committing" /\ pc'[r] # "committing") =>
               /\ pc'[r] \in {"raised", "returned"}
               /\ commits' = commits /\ collection' = collection
               /\ request'[r] = request[r]
          /\ pc[r] \notin {"idle", "committing"} => pc'[r] \notin {"idle", "committing"}
          /\ pc[r] = "raised" =>
               /\ pc'[r] = "raised"
               /\ request'[r] # request[r] =>
                    (request[r] = "pending" /\ request'[r] = "applied")]_vars

\* C17 witness: a run's commit of a batch has raised, none of its ids is in
\* the collection, and the batch of the other run has been applied.
C17_Witness ==
  \E r, q \in Runs :
    /\ pc[r] = "raised" /\ batch[r] # <<>>
    /\ BatchIds(batch[r]) \cap DOMAIN collection = {}
    /\ Cardinality(CommitsOf(q)) = 1
    /\ collection # <<>>

\* C18: a commit leaves every document whose id is not in the run's batch
\* as it was, creates no id outside the batch and deletes none; no step
\* takes a document out of the collection, and only a commit changes it.
C18_PublishOnlyUpserts ==
  /\ [](\A k \in 1..Len(commits) :
          LET ids == BatchIds(batch[commits[k].run])
          IN  /\ DOMAIN commits[k].after = DOMAIN commits[k].before \cup ids
              /\ \A doc_id \in DOMAIN commits[k].before \ ids :
                   commits[k].after[doc_id] = commits[k].before[doc_id])
  /\ [][/\ DOMAIN collection \subseteq DOMAIN collection'
        /\ collection' # collection =>
             /\ Len(commits') = Len(commits) + 1
             /\ commits'[Len(commits')].before = collection
             /\ commits'[Len(commits')].after = collection']_vars

\* C18 witness: after a run published a document, the other run committed
\* a batch that does not name its id, and the document is still there as
\* the first run wrote it.
C18_Witness ==
  \E k, l \in 1..Len(commits) :
    /\ k < l
    /\ batch[commits[l].run] # <<>>
    /\ \E doc_id \in BatchIds(batch[commits[k].run]) \ BatchIds(batch[commits[l].run]) :
         /\ doc_id \in DOMAIN collection
         /\ collection[doc_id] = commits[k].after[doc_id]

\* The three taxonomy buckets
TAXONOMY_BUCKETS == {"central", "states", "uts"}

\* The places <<bucket, source, item>> of the items under the taxonomy buckets
Positions(snap) ==
  UNION { UNION { { <<b, s, j>> : j \in 1..Len(snap[b][2][s][2]) } :
                  s \in 1..Len(snap[b][2]) } :
          b \in {c \in 1..Len(snap) : snap[c][1] \in TAXONOMY_BUCKETS} }

\* Iteration order of buckets, sources and items
Before(p, q) ==
  \/ p[1] < q[1]
  \/ p[1] = q[1] /\ p[2] < q[2]
  \/ p[1] = q[1] /\ p[2] = q[2] /\ p[3] < q[3]

\* The place of a position in iteration order
Rank(snap, p) == 1 + Cardinality({q \in Positions(snap) : Before(q, p)})

\* C19: a run with a handle queues as many writes as there are items under
\* 'central', 'states' and 'uts', the i-th write being the document of the
\* i-th such item in iteration order of buckets, sources and items; items
\* under other keys give no document; the committed call returns that
\* number, and with no such item the batch is empty, the call returns 0 and
\* the commit leaves the collection as it was.
C19_OnlyTaxonomyBuckets ==
  \A r \in Runs :
    (db[r] = "client" /\ pc[r] \notin {"idle", "skipped"}) =>
      LET snap == snapshot[r]
      IN  /\ Len(policy_list[r]) = Cardinality(Positions(snap))
          /\ Len(batch[r]) = Len(policy_list[r])
          /\ \A p \in Positions(snap) :
               LET i           == Rank(snap, p)
                   source_type == snap[p[1]][1]
                   source_name == snap[p[1]][2][p[2]][1]
                   item        == snap[p[1]][2][p[2]][2][p[3]]
               IN  /\ batch[r][i][2] = policy_list[r][i]
                   /\ \E n, m \in 1..Len(UTCNOW) :
                        /\ n <= m
                        /\ policy_list[r][i] =
                             document(source_type, source_name, item, UTCNOW[n], UTCNOW[m])
          /\ \A k \in CommitsOf(r) :
               /\ r \in Returned => ret[r] = <<Cardinality(Positions(snap))>>
               /\ Positions(snap) = {} =>
                    /\ batch[r] = <<>>
                    /\ r \in Returned => ret[r] = <<0>>
                    /\ commits[k].after = commits[k].before

\* C19 witness: a run has published a snapshot whose first bucket is
\* 'archive', whose second holds two sources and whose third is another
\* taxonomy bucket: three documents were queued, those of the two sources
\* of the second bucket before that of the third, none for 'archive', and
\* 3 returned.
C19_Witness ==
  \E r \in Runs :
    /\ r \in Returned /\ CommitsOf(r) # {}
    /\ Len(snapshot[r]) = 3
    /\ snapshot[r][1][1] = "archive" /\ snapshot[r][1][2] # <<>>
    /\ snapshot[r][2][1] = "central" /\ Len(snapshot[r][2][2]) = 2
    /\ snapshot[r][3][1] = "uts"
    /\ Len(batch[r]) = 3
    /\ [i \in 1..3 |-> <<batch[r][i][2].source_type, batch[r][i][2].source>>]
         = << <<"Central", snapshot[r][2][2][1][1]>>,
              <<"Central", snapshot[r][2][2][2][1]>>,
              <<"Ut", snapshot[r][3][2][1][1]>> >>
    /\ snapshot[r][2][2][1][1] # snapshot[r][2][2][2][1]
    /\ ret[r] = <<3>>

\* C20: after a commit, an id that several writes of the batch name holds
\* the document of the write that comes last among them, and the commit
\* adds one document for each new id of the batch, however many writes
\* name it.
C20_LastDuplicateWins ==
  \A k \in 1..Len(commits) :
    LET writes == batch[commits[k].run]
    IN  /\ \A i \in 1..Len(writes) :
             (\A j \in (i + 1)..Len(writes) : writes[j][1] # writes[i][1]) =>
               commits[k].after[writes[i][1]] = writes[i][2]
        /\ Cardinality(DOMAIN commits[k].after) - Cardinality(DOMAIN commits[k].before)
             = Cardinality(BatchIds(writes) \ DOMAIN commits[k].before)

\* C20 witness: a committed batch named one id twice with different
\* documents, and the collection holds the second and nothing else.
C20_Witness ==
  \E k \in 1..Len(commits) :
    LET writes == batch[commits[k].run]
    IN  /\ Len(writes) = 2
        /\ writes[1][1] = writes[2][1]
        /\ ~SameButPublishedAt(writes[1][2], writes[2][2])
        /\ DOMAIN collection = {writes[2][1]}
        /\ collection[writes[2][1]] = writes[2][2]

=============================================================================
